---- MODULE Spec2Model ----
(***************************************************************************)
(* Retroactive audio capture (flashback): the sample-level ring buffer     *)
(* CircularAudioBuffer and the capture state machine AudioRecordingService *)
(* of src/src/services/audioService.js.                                    *)
(*                                                                         *)
(* The specifications share the variables:                                 *)
(*   SpecBuffer  a CircularAudioBuffer driven directly through its API     *)
(*               (constructor, addSamples, getSamples, getSampleCount,     *)
(*               clear);                                                   *)
(*   Spec        the AudioRecordingService: the control calls, the         *)
(*               producer callback onaudioprocess and the continuation of  *)
(*               a stopCapture() that is waiting on its 100 ms timer;      *)
(*   SpecCapture the service driven by the producer and the capture calls; *)
(*   SpecWav     samplesToWav applied to a sample sequence.                *)
(*                                                                         *)
(* Samples are tagged: the sample of frame k on channel ch is Sample(k,ch),*)
(* a positive integer that identifies the frame; 0 is the silence a        *)
(* Float32Array is initialised with.  The rolling window is scaled down to *)
(* a few frames (Durations, SampleRates).                                  *)
(***************************************************************************)
EXTENDS Integers, Sequences, FiniteSets, TLC

\* ------------------------------------------------------------------ bounds
\* window durations tried: 500 ms .. MaxDur * 500 ms
MaxDur == 4
\* frames the producer delivers in one behaviour
MaxFrames == 6
\* frames per batch given to addSamples
MaxBatch == 2
\* the service: frames per onaudioprocess batch (bufferSize)
SvcBatch == 1
\* the service: window durations tried, 500 ms .. MaxSvcDur * 500 ms
MaxSvcDur == 3
\* the service: frames the producer delivers in one behaviour
MaxSvcFrames == 4
\* stopCapture() calls waiting on their timer at the same time
MaxPending == 1
\* samples in the sequences given to samplesToWav
MaxWavLen == 2

\* hook operations awaiting the service's stopCapture() at one time
MaxHookCalls == 2
\* recordings saved in one behaviour through the storage functions
MaxIds == 2
\* recordings saved in one behaviour through useRecordings
MaxAdded == 1
\* storage calls in flight at one time
MaxCalls == 2
\* the chunk buffer alone: windows tried, 500 ms .. MaxChunkDur * 500 ms
MaxChunkDur == 4
\* the chunk buffer alone: blobs handed to addChunk in one behaviour
MaxBlobs == 5
\* the chunk-based service: non-empty chunks its recorders deliver
MaxSvcChunks == 2
\* the chunk-based service: stopCapture() calls waiting for onstop
MaxChunkStops == 1
\* the chunk-based service: recorders it no longer refers to that still
\* record, and final chunks owed by stopped recorders, of each kind
MaxStray == 2
MaxLoads == 3           \* pipeline() calls
MaxTranscriptions == 2  \* calls of the transcription service under way

Durations == {500 * k : k \in 1..MaxDur}
SampleRates == {1, 2}
ChannelCounts == {1, 2}
\* the service's window and the rate of its audio context
SvcDurations == {500 * k : k \in 1..MaxSvcDur}
SvcSampleRates == {1, 2}

Min(a, b) == IF a <= b THEN a ELSE b
CeilDiv(a, b) == (a + b - 1) \div b

\* ------------------------------------------------------------- variables
VARIABLES
    circularBuffer,   \* the CircularAudioBuffer object (NullBuffer: null)
    audioContext,     \* "null" | "running"
    stream,           \* "null" | "live" | "ended"
    sourceNode,       \* "null" | "connected"
    processorNode,    \* "null" | "connected": the producer of onaudioprocess
    recordedSamples,  \* the capture session: a sequence of cloned batches
    isRecording,
    isBuffering,
    pending,          \* stopCapture() calls suspended at their await, oldest first
                      \* (each entry: the history of the capture it ends)
    nextFrame,        \* tag of the next frame the producer delivers
    lastOp,           \* the operation the last step performed
    ret,              \* what that operation returned / resolved / threw
    sinceClear,       \* history: the batches added to the buffer since it was
                      \* constructed or last cleared
    cleared,          \* history: clear() has been called on the buffer
    trigger,          \* history: the capture in progress: the window at its
                      \* startCapture(), the samples its session was given,
                      \* and whether only frames arrived since (plain)
    wavIn,            \* the arguments of a samplesToWav call
    wavOut,           \* the bytes of the Blob it returned (<<>>: not called)
    \* useAudioRecorder
    mounted,          \* "no" | "yes" | "gone": the component using the hook
    initAudio,        \* "idle" | "awaiting" | "done" | "failed": the effect's
                      \* async initAudio()
    audioServiceRef,  \* "null" | "service": audioServiceRef.current
    recorder,         \* the hook's state: isRecording, isBuffering,
                      \* isInitialized, error
    service,          \* the flags of the audio service the hook drives
    hookCalls,        \* hook operations suspended at the service's
                      \* stopCapture(), oldest first
    \* storageService and useRecordings
    db,               \* the recordings object store: id -> record
    calls,            \* storage calls in flight
    recordings,       \* useRecordings: the in-memory list
    recState,         \* useRecordings: loading, error
    now,              \* Date.now() of the next saveRecording
    \* the chunk-based CircularAudioBuffer and AudioRecordingService
    chunkBuffer,      \* the buffer: maxChunks, chunkDuration, chunks
    chunkAdded,       \* history: the non-empty chunks added since the buffer
                      \* was constructed or last cleared
    chunkService,     \* the service's other fields; a recorder is "null",
                      \* "inactive" or "recording"
    chunkStops,       \* stopCapture() calls of that service waiting for onstop
    nextChunk,        \* tag of the next chunk a recorder delivers
    misuse,           \* history: start() calls on a recorder that was
                      \* recording, stop() calls on one that was inactive
    \* transcriptionService
    transcriptionPipeline,  \* "null" | "pipe"
    isLoading,
    loadingPromise,   \* 0: null; n: the promise made from the n-th pipeline()
    pipelineCalls,    \* the pipeline() calls made so far, each "pending",
                      \* "loaded" or "failed"
    transcriptions    \* the phases of the transcribeAudio/preload calls
                      \* in flight

bufVars == <<circularBuffer, sinceClear, cleared>>
resVars == <<audioContext, stream, sourceNode, processorNode>>
svcVars == <<recordedSamples, isRecording, isBuffering, pending, trigger>>
wavVars == <<wavIn, wavOut>>
hookVars == <<mounted, initAudio, audioServiceRef, recorder, service, hookCalls>>
storeVars == <<db, calls, recordings, recState, now>>
chunkVars == <<chunkBuffer, chunkAdded, chunkService, chunkStops, nextChunk,
               misuse>>
txVars == <<transcriptionPipeline, isLoading, loadingPromise, pipelineCalls,
            transcriptions>>
moreVars == <<chunkVars, txVars>>
appVars == <<hookVars, storeVars, moreVars>>
vars == <<circularBuffer, audioContext, stream, sourceNode, processorNode,
          recordedSamples, isRecording, isBuffering, pending, nextFrame,
          lastOp, ret, sinceClear, cleared, trigger, wavIn, wavOut,
          mounted, initAudio, audioServiceRef, recorder, service, hookCalls,
          db, calls, recordings, recState, now,
          chunkBuffer, chunkAdded, chunkService, chunkStops, nextChunk, misuse,
          transcriptionPipeline, isLoading, loadingPromise, pipelineCalls,
          transcriptions>>

\* ---------------------------------------------------------------- inputs
\* the sample of frame k on channel ch (1-based); never 0
Sample(k, ch) == 2 * k + (ch - 1)

\* audioData: one array per channel, n frames starting at frame `first`
Batch(first, n, nch) ==
    [ch \in 1..nch |-> [i \in 1..n |-> Sample(first + i - 1, ch)]]

\* -------------------------------------------------- CircularAudioBuffer
\* this.circularBuffer = null
NullBuffer ==
    [sampleRate |-> 0, channels |-> 0, maxSamples |-> 0, buffer |-> <<>>,
     writeIndex |-> 0, samplesWritten |-> 0]

\* constructor(durationMs, sampleRate, channels):
\* maxSamples = Math.ceil((durationMs / 1000) * sampleRate)
NewBuffer(durationMs, sampleRate, channels) ==
    LET maxSamples == CeilDiv(durationMs * sampleRate, 1000)
    IN  [sampleRate |-> sampleRate, channels |-> channels,
         maxSamples |-> maxSamples,
         buffer |-> [j \in 0..(maxSamples * channels - 1) |-> 0],
         writeIndex |-> 0, samplesWritten |-> 0]

BufferLength(b) == b.maxSamples * b.channels

\* the inner loop of addSamples: channels ch..channels of frame i
RECURSIVE WriteChannels(_, _, _, _)
WriteChannels(b, audioData, i, ch) ==
    IF ch > b.channels THEN b
    ELSE LET value == IF ch <= Len(audioData) THEN audioData[ch][i] ELSE 0
             index == (b.writeIndex * b.channels + (ch - 1)) % BufferLength(b)
         IN  WriteChannels([b EXCEPT !.buffer[index] = value], audioData, i, ch + 1)

\* a buggy variant: the write index is not wrapped
AddFrameNoWrap(b, audioData, i) ==
    LET w == WriteChannels(b, audioData, i, 1)
    IN  [w EXCEPT !.writeIndex = b.writeIndex + 1,
                  !.samplesWritten = b.samplesWritten + 1]

\* one iteration of the outer loop of addSamples
AddFrame(b, audioData, i) ==
    LET w == WriteChannels(b, audioData, i, 1)
    IN  [w EXCEPT !.writeIndex = (b.writeIndex + 1) % b.maxSamples,
                  !.samplesWritten = b.samplesWritten + 1]

RECURSIVE AddFrom(_, _, _)
AddFrom(b, audioData, i) ==
    IF i > Len(audioData[1]) THEN b
    ELSE AddFrom(AddFrame(b, audioData, i), audioData, i + 1)

\* addSamples(audioData): numSamples = audioData[0].length
AddSamples(b, audioData) == AddFrom(b, audioData, 1)

\* a buggy variant: always reads from slot 0
GetSamplesFromZero(b) ==
    LET actualSamples == Min(b.samplesWritten, b.maxSamples)
    IN  [k \in 1..(actualSamples * b.channels) |->
            LET i == (k - 1) \div b.channels
                ch == (k - 1) % b.channels
            IN  b.buffer[(i % b.maxSamples) * b.channels + ch]]

\* getSamples(): the interleaved Float32Array, oldest frame first
GetSamples(b) ==
    LET actualSamples == Min(b.samplesWritten, b.maxSamples)
        startIndex == IF b.samplesWritten >= b.maxSamples THEN b.writeIndex ELSE 0
    IN  [k \in 1..(actualSamples * b.channels) |->
            LET i == (k - 1) \div b.channels
                ch == (k - 1) % b.channels
                sourceIndex == (startIndex + i) % b.maxSamples
            IN  b.buffer[sourceIndex * b.channels + ch]]

\* a buggy variant: only the counter is reset
ClearCountOnly(b) ==
    [b EXCEPT !.buffer = [j \in DOMAIN b.buffer |-> 0], !.samplesWritten = 0]

\* clear()
Clear(b) ==
    [b EXCEPT !.buffer = [j \in DOMAIN b.buffer |-> 0],
              !.writeIndex = 0, !.samplesWritten = 0]

\* a buggy variant: the total written, not the number held
GetSampleCountTotal(b) == b.samplesWritten

\* getSampleCount()
GetSampleCount(b) == Min(b.samplesWritten, b.maxSamples)

\* ------------------------------------------------- values an operation returns
NoRet == [kind |-> "none", samples |-> <<>>, value |-> 0, duration |-> 0]
Returned(kind) == [kind |-> kind, samples |-> <<>>, value |-> 0, duration |-> 0]

NoTrigger == [active |-> FALSE, plain |-> FALSE, pre |-> <<>>, session |-> <<>>]
NoWavIn == [samples |-> <<>>, sampleRate |-> 0, channels |-> 0]

\* useAudioRecorder before its first render: the useState/useRef initial
\* values, and the flags of a service as its constructor leaves them
NewRecorder ==
    [isRecording |-> FALSE, isBuffering |-> FALSE, isInitialized |-> FALSE,
     error |-> "null"]

NewService ==
    [audioContext |-> "null", stream |-> "null",
     isBuffering |-> FALSE, isRecording |-> FALSE]

HookIdle ==
    /\ mounted = "no"
    /\ initAudio = "idle"
    /\ audioServiceRef = "null"
    /\ recorder = NewRecorder
    /\ service = NewService
    /\ hookCalls = <<>>

\* an object store without records, and useRecordings before its first render
EmptyStore == [i \in {} |-> 0]

NewRecState == [loading |-> FALSE, error |-> "null"]

\* what db.get resolves to for a key the store does not hold
NoRecording ==
    [id |-> 0, name |-> "", timestamp |-> 0, isFavorite |-> FALSE,
     transcription |-> "null"]

StoreIdle ==
    /\ db = EmptyStore
    /\ calls = <<>>
    /\ recordings = <<>>
    /\ recState = NewRecState
    /\ now = 1

\* the constants BUFFER_DURATION_MS and CHUNK_DURATION_MS
BUFFER_DURATION_MS == 15000
CHUNK_DURATION_MS == 1000

\* new CircularAudioBuffer(durationMs, chunkDurationMs) of the chunk-based
\* service file
NewChunkBuffer(durationMs, chunkDurationMs) ==
    [maxChunks |-> CeilDiv(durationMs, chunkDurationMs),
     chunks |-> <<>>,
     chunkDuration |-> chunkDurationMs]

\* the fields the chunk-based service's constructor sets, but its buffer
NewChunkService ==
    [mediaRecorder |-> "null", recordingMediaRecorder |-> "null",
     stream |-> "null", currentRecording |-> <<>>,
     isRecording |-> FALSE, isBuffering |-> FALSE,
     \* recorders the service no longer refers to that still record, and
     \* final dataavailable events owed by stopped recorders; "Media" ones
     \* run the buffering recorder's handler, "Recording" ones a capture's
     strayRecording |-> 0, owedMedia |-> 0, owedRecording |-> 0]

\* this.circularBuffer = new CircularAudioBuffer()
DefaultChunkBuffer == NewChunkBuffer(BUFFER_DURATION_MS, CHUNK_DURATION_MS)

ChunkIdle ==
    /\ chunkAdded = <<>>
    /\ chunkService = NewChunkService
    /\ chunkStops = 0
    /\ nextChunk = 1
    /\ misuse = {}

\* the module-level state of transcriptionService
TranscriptionIdle ==
    /\ transcriptionPipeline = "null"
    /\ isLoading = FALSE
    /\ loadingPromise = 0
    /\ pipelineCalls = <<>>
    /\ transcriptions = <<>>

\* ------------------------------------------------------------ SpecBuffer
\* the buffer is driven directly; the service stays as constructed
ServiceIdle ==
    /\ audioContext = "null" /\ stream = "null"
    /\ sourceNode = "null" /\ processorNode = "null"
    /\ recordedSamples = <<>> /\ isRecording = FALSE /\ isBuffering = FALSE
    /\ pending = <<>>
    /\ trigger = NoTrigger
    /\ wavIn = NoWavIn
    /\ wavOut = <<>>
    /\ HookIdle
    /\ StoreIdle
    /\ ChunkIdle
    /\ TranscriptionIdle

InitBuffer ==
    /\ \E d \in Durations, r \in SampleRates, c \in ChannelCounts :
          circularBuffer = NewBuffer(d, r, c)
    /\ ServiceIdle
    /\ chunkBuffer = DefaultChunkBuffer
    /\ nextFrame = 1
    /\ lastOp = "new"
    /\ ret = NoRet
    /\ sinceClear = <<>>
    /\ cleared = FALSE

\* buffer.addSamples(audioData) with n frames on nch channel arrays
AddSamplesCall ==
    \E n \in 1..MaxBatch, nch \in 1..circularBuffer.channels :
        /\ nextFrame + n - 1 <= MaxFrames
        /\ LET audioData == Batch(nextFrame, n, nch)
           IN  /\ circularBuffer' = AddSamples(circularBuffer, audioData)
               /\ sinceClear' = Append(sinceClear, audioData)
        /\ nextFrame' = nextFrame + n
        /\ lastOp' = "addSamples"
        /\ ret' = NoRet
        /\ UNCHANGED <<wavVars, appVars, cleared, resVars, svcVars>>

\* a buggy variant: a read that drains the buffer
GetSamplesCallDraining ==
    /\ lastOp' = "getSamples"
    /\ ret' = [kind |-> "samples", samples |-> GetSamples(circularBuffer),
               value |-> 0, duration |-> 0]
    /\ circularBuffer' = [circularBuffer EXCEPT !.samplesWritten = 0]
    /\ UNCHANGED <<wavVars, appVars, sinceClear, cleared, nextFrame, resVars, svcVars>>

\* buffer.getSamples()
GetSamplesCall ==
    /\ lastOp' = "getSamples"
    /\ ret' = [kind |-> "samples", samples |-> GetSamples(circularBuffer),
               value |-> 0, duration |-> 0]
    /\ UNCHANGED <<wavVars, appVars, bufVars, nextFrame, resVars, svcVars>>

\* buffer.getSampleCount()
GetSampleCountCall ==
    /\ lastOp' = "getSampleCount"
    /\ ret' = [kind |-> "count", samples |-> <<>>,
               value |-> GetSampleCount(circularBuffer), duration |-> 0]
    /\ UNCHANGED <<wavVars, appVars, bufVars, nextFrame, resVars, svcVars>>

\* buffer.clear()
ClearCall ==
    /\ circularBuffer' = Clear(circularBuffer)
    /\ sinceClear' = <<>>
    /\ cleared' = TRUE
    /\ lastOp' = "clear"
    /\ ret' = NoRet
    /\ UNCHANGED <<wavVars, appVars, nextFrame, resVars, svcVars>>

NextBuffer ==
    \/ AddSamplesCall
    \/ GetSamplesCall
    \/ GetSampleCountCall
    \/ ClearCall

SpecBuffer == InitBuffer /\ [][NextBuffer]_vars

\* ------------------------------------------------- AudioRecordingService
\* new CircularAudioBuffer(BUFFER_DURATION_MS, sampleRate, 2)
ServiceChannels == 2

\* one cloned batch of the session, interleaved as stopCapture flattens it
FlattenSet(sampleSet) ==
    [k \in 1..(Len(sampleSet[1]) * Len(sampleSet)) |->
        sampleSet[((k - 1) % Len(sampleSet)) + 1][((k - 1) \div Len(sampleSet)) + 1]]

RECURSIVE RecordedFlat(_)
\* recordedFlat of stopCapture
RecordedFlat(sets) ==
    IF sets = <<>> THEN <<>>
    ELSE FlattenSet(Head(sets)) \o RecordedFlat(Tail(sets))

\* samplesToWav allocates 44 + samples.length * 2 bytes
WavSize(samples) == 44 + Len(samples) * 2

\* a buggy variant: the interleaved samples counted as frames
DurationMsPerSample(samples, sampleRate) == (Len(samples) * 1000) \div sampleRate

\* stopCapture: totalSamples = combinedSamples.length / 2;
\* durationMs = (totalSamples / sampleRate) * 1000, with the rate of the audio
\* context, the one the ring buffer was constructed with (exact for the
\* rates of SvcSampleRates)
DurationMs(samples, sampleRate) == ((Len(samples) \div 2) * 1000) \div sampleRate

Init ==
    /\ circularBuffer = NullBuffer
    /\ ServiceIdle
    /\ chunkBuffer = DefaultChunkBuffer
    /\ nextFrame = 1
    /\ lastOp = "new"
    /\ ret = NoRet
    /\ sinceClear = <<>>
    /\ cleared = FALSE

\* initialize() succeeds.  It is called on a service that holds no audio
\* context (first use, or after cleanup()); the device's rate and the window
\* are the same on every call.
Initialize ==
    /\ audioContext = "null"
    /\ \E d \in SvcDurations, r \in SvcSampleRates :
        /\ circularBuffer # NullBuffer =>
              NewBuffer(d, r, ServiceChannels).maxSamples = circularBuffer.maxSamples
              /\ r = circularBuffer.sampleRate
        /\ circularBuffer' = NewBuffer(d, r, ServiceChannels)
    /\ stream' = "live"
    /\ audioContext' = "running"
    /\ sourceNode' = "connected"
    /\ processorNode' = "connected"
    /\ sinceClear' = <<>>
    /\ cleared' = FALSE
    /\ lastOp' = "initialize"
    /\ ret' = Returned("true")
    /\ UNCHANGED <<wavVars, appVars, recordedSamples, isRecording, isBuffering, pending, trigger,
                   nextFrame>>

\* initialize() fails: unsupported browser, or getUserMedia rejects
InitializeFails ==
    /\ audioContext = "null"
    /\ lastOp' = "initialize"
    /\ ret' = Returned("throw")
    /\ UNCHANGED <<wavVars, appVars, bufVars, resVars, recordedSamples, isRecording, isBuffering,
                   pending, trigger, nextFrame>>

\* a buggy variant: startBuffering() without its audio-context check
StartBufferingUnguarded ==
    /\ lastOp' = "startBuffering"
    /\ ret' = Returned("undefined")
    /\ isBuffering' = TRUE
    /\ UNCHANGED <<wavVars, appVars, bufVars, resVars, recordedSamples, isRecording, pending,
                   trigger, nextFrame>>

\* startBuffering()
StartBuffering ==
    /\ lastOp' = "startBuffering"
    /\ IF audioContext = "null"
       THEN /\ ret' = Returned("throw")
            /\ UNCHANGED isBuffering
       ELSE /\ ret' = Returned("undefined")
            /\ isBuffering' = TRUE
    /\ UNCHANGED <<wavVars, appVars, bufVars, resVars, recordedSamples, isRecording, pending,
                   trigger, nextFrame>>

\* stopBuffering()
StopBuffering ==
    /\ isBuffering' = FALSE
    /\ trigger' = [trigger EXCEPT !.plain = FALSE]
    /\ lastOp' = "stopBuffering"
    /\ ret' = Returned("undefined")
    /\ UNCHANGED <<wavVars, appVars, bufVars, resVars, recordedSamples, isRecording, pending,
                   nextFrame>>

\* a buggy variant: startCapture() that keeps the session it finds
StartCaptureBodyKeepsSession(op) ==
    /\ lastOp' = op
    /\ IF ~isBuffering
       THEN /\ ret' = Returned("throw")
            /\ UNCHANGED <<recordedSamples, isRecording, trigger>>
       ELSE /\ UNCHANGED recordedSamples
            /\ isRecording' = TRUE
            /\ trigger' = [active |-> TRUE, plain |-> TRUE,
                           pre |-> GetSamples(circularBuffer), session |-> <<>>]
            /\ ret' = Returned(IF op = "startCapture" THEN "undefined" ELSE "null")
    /\ UNCHANGED <<wavVars, appVars, bufVars, resVars, isBuffering, pending, nextFrame>>

\* the body of startCapture(), called as `op`
StartCaptureBody(op) ==
    /\ lastOp' = op
    /\ IF ~isBuffering
       THEN /\ ret' = Returned("throw")
            /\ UNCHANGED <<recordedSamples, isRecording, trigger>>
       ELSE /\ recordedSamples' = <<>>
            /\ isRecording' = TRUE
            /\ trigger' = [active |-> TRUE, plain |-> TRUE,
                           pre |-> GetSamples(circularBuffer), session |-> <<>>]
            /\ ret' = Returned(IF op = "startCapture" THEN "undefined" ELSE "null")
    /\ UNCHANGED <<wavVars, appVars, bufVars, resVars, isBuffering, pending, nextFrame>>

\* a buggy variant: stopCapture() without its isRecording guard
StopCaptureBeginUnguarded(op) ==
    /\ lastOp' = op
    /\ Len(pending) < MaxPending
    /\ isRecording' = FALSE
    /\ pending' = Append(pending, trigger)
    /\ trigger' = NoTrigger
    /\ ret' = Returned("pending")
    /\ UNCHANGED <<wavVars, appVars, bufVars, resVars, recordedSamples, isBuffering, nextFrame>>

\* a buggy variant: stopCapture() that also stops the buffering
StopCaptureBeginStopsBuffering(op) ==
    /\ lastOp' = op
    /\ IF ~isRecording
       THEN /\ ret' = Returned("null")
            /\ UNCHANGED <<isRecording, isBuffering, pending, trigger>>
       ELSE /\ Len(pending) < MaxPending
            /\ isRecording' = FALSE
            /\ isBuffering' = FALSE
            /\ pending' = Append(pending, trigger)
            /\ trigger' = NoTrigger
            /\ ret' = Returned("pending")
    /\ UNCHANGED <<wavVars, appVars, bufVars, resVars, recordedSamples, nextFrame>>

\* stopCapture() up to its await, called as `op`: null when not recording,
\* otherwise the flag is cleared and the call waits on its 100 ms timer
StopCaptureBegin(op) ==
    /\ lastOp' = op
    /\ IF ~isRecording
       THEN /\ ret' = Returned("null")
            /\ UNCHANGED <<isRecording, pending, trigger>>
       ELSE /\ Len(pending) < MaxPending
            /\ isRecording' = FALSE
            /\ pending' = Append(pending, trigger)
            /\ trigger' = NoTrigger
            /\ ret' = Returned("pending")
    /\ UNCHANGED <<wavVars, appVars, bufVars, resVars, recordedSamples, isBuffering, nextFrame>>

StartCapture == StartCaptureBody("startCapture")

StopCapture == StopCaptureBegin("stopCapture")

\* a buggy variant: toggleRecording() that starts a capture whatever the flag
ToggleRecordingStartOnly == StartCaptureBody("toggleRecording")

\* toggleRecording()
ToggleRecording ==
    IF isRecording
    THEN StopCaptureBegin("toggleRecording")
    ELSE StartCaptureBody("toggleRecording")

\* a buggy variant: the session alone, without the buffered window
CombinedSamplesSessionOnly(bufferedSamples, recorded) == RecordedFlat(recorded)

\* stopCapture: the buffered samples alone when nothing was recorded,
\* otherwise the buffered samples followed by the flattened session
CombinedSamples(bufferedSamples, recorded) ==
    IF Len(recorded) = 0 THEN bufferedSamples
    ELSE bufferedSamples \o RecordedFlat(recorded)

\* the oldest waiting stopCapture() resumes after its timer
StopCaptureResume ==
    /\ pending # <<>>
    /\ pending' = Tail(pending)
    /\ lastOp' = "stopCapture.resume"
    /\ LET bufferedSamples == GetSamples(circularBuffer)
           combinedSamples == CombinedSamples(bufferedSamples, recordedSamples)
       IN  IF Len(combinedSamples) = 0
           THEN /\ recordedSamples' = <<>>
                /\ ret' = IF audioContext = "null" THEN Returned("throw")
                          ELSE [kind |-> "result", samples |-> <<>>,
                                value |-> 0, duration |-> 0]
           ELSE IF audioContext = "null"
                THEN /\ ret' = Returned("throw")
                     /\ UNCHANGED recordedSamples
                ELSE /\ recordedSamples' = <<>>
                     /\ ret' = [kind |-> "result", samples |-> combinedSamples,
                                value |-> WavSize(combinedSamples),
                                duration |-> DurationMs(combinedSamples,
                                                circularBuffer.sampleRate)]
    /\ trigger' = [trigger EXCEPT !.plain = FALSE]
    /\ UNCHANGED <<wavVars, appVars, bufVars, resVars, isRecording, isBuffering, nextFrame>>

\* a buggy variant: a batch goes to the session instead of the ring buffer
\* while a capture is recording
OnAudioProcessExclusive ==
    /\ processorNode = "connected"
    /\ \E n \in {SvcBatch} :
        /\ nextFrame + n - 1 <= MaxSvcFrames
        /\ nextFrame' = nextFrame + n
        /\ LET channelData == Batch(nextFrame, n, ServiceChannels)
           IN  /\ IF isBuffering /\ ~isRecording
                  THEN /\ circularBuffer' = AddSamples(circularBuffer, channelData)
                       /\ sinceClear' = Append(sinceClear, channelData)
                  ELSE UNCHANGED <<circularBuffer, sinceClear>>
               /\ IF isRecording
                  THEN /\ recordedSamples' = Append(recordedSamples, channelData)
                       /\ trigger' = [trigger EXCEPT
                              !.session = @ \o FlattenSet(channelData)]
                  ELSE UNCHANGED <<recordedSamples, trigger>>
    /\ lastOp' = "onaudioprocess"
    /\ ret' = NoRet
    /\ UNCHANGED <<wavVars, appVars, cleared, resVars, isRecording, isBuffering, pending>>

\* processorNode.onaudioprocess: the producer delivers a batch of n frames
OnAudioProcess ==
    /\ processorNode = "connected"
    /\ \E n \in {SvcBatch} :
        /\ nextFrame + n - 1 <= MaxSvcFrames
        /\ nextFrame' = nextFrame + n
        /\ LET channelData == Batch(nextFrame, n, ServiceChannels)
           IN  /\ IF isBuffering
                  THEN /\ circularBuffer' = AddSamples(circularBuffer, channelData)
                       /\ sinceClear' = Append(sinceClear, channelData)
                  ELSE UNCHANGED <<circularBuffer, sinceClear>>
               /\ IF isRecording
                  THEN /\ recordedSamples' = Append(recordedSamples, channelData)
                       /\ trigger' = [trigger EXCEPT
                              !.session = @ \o FlattenSet(channelData)]
                  ELSE UNCHANGED <<recordedSamples, trigger>>
    /\ lastOp' = "onaudioprocess"
    /\ ret' = NoRet
    /\ UNCHANGED <<wavVars, appVars, cleared, resVars, isRecording, isBuffering, pending>>

\* an audioprocess event that was queued before cleanup() disconnected the
\* node: the handler runs against the service as cleanup() left it
OnAudioProcessDisconnected ==
    /\ processorNode = "null"
    /\ circularBuffer # NullBuffer
    /\ \E n \in {SvcBatch} :
        /\ nextFrame + n - 1 <= MaxSvcFrames
        /\ nextFrame' = nextFrame + n
        /\ LET channelData == Batch(nextFrame, n, ServiceChannels)
           IN  IF ~isBuffering /\ ~isRecording
               THEN UNCHANGED <<circularBuffer, sinceClear, recordedSamples, trigger>>
               ELSE /\ IF isBuffering
                       THEN /\ circularBuffer' = AddSamples(circularBuffer, channelData)
                            /\ sinceClear' = Append(sinceClear, channelData)
                       ELSE UNCHANGED <<circularBuffer, sinceClear>>
                    /\ IF isRecording
                       THEN /\ recordedSamples' = Append(recordedSamples, channelData)
                            /\ trigger' = [trigger EXCEPT
                                   !.session = @ \o FlattenSet(channelData)]
                       ELSE UNCHANGED <<recordedSamples, trigger>>
    /\ lastOp' = "onaudioprocess"
    /\ ret' = NoRet
    /\ UNCHANGED <<wavVars, appVars, cleared, resVars, isRecording, isBuffering, pending>>

\* a buggy variant: cleanup() that leaves the ring buffer as it is
CleanupWithoutClear ==
    /\ isBuffering' = FALSE
    /\ isRecording' = FALSE
    /\ processorNode' = "null"
    /\ sourceNode' = "null"
    /\ audioContext' = "null"
    /\ stream' = "null"
    /\ UNCHANGED bufVars
    /\ recordedSamples' = <<>>
    /\ trigger' = NoTrigger
    /\ lastOp' = "cleanup"
    /\ ret' = Returned("undefined")
    /\ UNCHANGED <<wavVars, appVars, pending, nextFrame>>

\* cleanup()
Cleanup ==
    /\ isBuffering' = FALSE
    /\ isRecording' = FALSE
    /\ processorNode' = "null"
    /\ sourceNode' = "null"
    /\ audioContext' = "null"
    /\ stream' = "null"
    /\ IF circularBuffer # NullBuffer
       THEN /\ circularBuffer' = Clear(circularBuffer)
            /\ sinceClear' = <<>>
            /\ cleared' = TRUE
       ELSE UNCHANGED bufVars
    /\ recordedSamples' = <<>>
    /\ trigger' = NoTrigger
    /\ lastOp' = "cleanup"
    /\ ret' = Returned("undefined")
    /\ UNCHANGED <<wavVars, appVars, pending, nextFrame>>

Next ==
    \/ Initialize
    \/ InitializeFails
    \/ StartBuffering
    \/ StopBuffering
    \/ StartCapture
    \/ StopCapture
    \/ ToggleRecording
    \/ StopCaptureResume
    \/ OnAudioProcess
    \/ OnAudioProcessDisconnected
    \/ Cleanup

Spec == Init /\ [][Next]_vars

\* the service once buffering, driven by the producer and the capture calls only
NextCapture ==
    \/ Initialize
    \/ StartBuffering
    \/ StartCapture
    \/ StopCapture
    \/ ToggleRecording
    \/ StopCaptureResume
    \/ OnAudioProcess

SpecCapture == Init /\ [][NextCapture]_vars

\* the microphone track of the stream ends (the device is unplugged, the
\* permission is revoked): initialize() registers no handler on the stream,
\* its track or the context, so no code of the service runs
StreamEnded ==
    /\ stream = "live"
    /\ stream' = "ended"
    /\ lastOp' = "stream.ended"
    /\ ret' = NoRet
    /\ UNCHANGED <<wavVars, appVars, bufVars, audioContext, sourceNode, processorNode,
                   svcVars, nextFrame>>

\* the service driven by the producer and the capture calls, with a source
\* that can fail while the service is buffering or recording and delivers
\* no batch once it has; the timer of a waiting stopCapture() does fire
NextSource ==
    \/ Initialize
    \/ StartBuffering
    \/ StartCapture
    \/ StopCapture
    \/ StopCaptureResume
    \/ stream = "live" /\ OnAudioProcess
    \/ (isBuffering \/ isRecording) /\ StreamEnded

SpecSource == Init /\ [][NextSource]_vars /\ WF_vars(StopCaptureResume)

\* ------------------------------------------------------- samplesToWav
\* A Float32 sample is the fraction num / den with den a power of two; its
\* products with 0x7FFF and 0x8000 are exact in double precision, so the
\* integer arithmetic below is the code's.
Float32(n, d) == [num |-> n, den |-> d]

\* the sample values the encoder is given: 0, +-1, values beyond +-1, and
\* fractions whose scaled value is not an integer
WavSamples ==
    {Float32(0, 4), Float32(4, 4), Float32(-4, 4), Float32(6, 4), Float32(-6, 4),
     Float32(5, 4), Float32(-5, 4), Float32(1, 4), Float32(-1, 4), Float32(3, 4),
     Float32(3, 131072), Float32(-3, 131072),
     Float32(16385, 131072), Float32(-16387, 131072)}

WavSampleRates == {8000, 44100, 48000}

WavChannels == {1, 2}

RECURSIVE SeqsUpTo(_, _)
\* the sequences over S of length at most n
SeqsUpTo(S, n) ==
    IF n = 0 THEN {<<>>}
    ELSE LET shorter == SeqsUpTo(S, n - 1)
         IN  shorter \cup {Append(q, x) : q \in shorter, x \in S}

\* writeString: the char codes of the four chunk ids
WriteString(id) ==
    CASE id = "RIFF" -> <<82, 73, 70, 70>>
      [] id = "WAVE" -> <<87, 65, 86, 69>>
      [] id = "fmt " -> <<102, 109, 116, 32>>
      [] id = "data" -> <<100, 97, 116, 97>>

\* a buggy variant: the bytes in big-endian order
SetUint32BigEndian(value) ==
    <<(value \div 16777216) % 256, (value \div 65536) % 256,
      (value \div 256) % 256, value % 256>>

\* view.setUint32(offset, value, true), for the values below 2^31 that the
\* header fields take here
SetUint32(value) ==
    <<value % 256, (value \div 256) % 256,
      (value \div 65536) % 256, (value \div 16777216) % 256>>

\* view.setUint16(offset, value, true)
SetUint16(value) ==
    LET v == value % 65536
    IN  <<v % 256, (v \div 256) % 256>>

\* ToInt16 of view.setInt16: the fraction is dropped (toward zero) and the
\* integer is taken modulo 2^16
TruncateToInt16(num, den) ==
    LET int == IF num >= 0 THEN num \div den ELSE -((-num) \div den)
    IN  ((int + 32768) % 65536) - 32768

\* a buggy variant: the sample is scaled without being clamped to [-1, 1]
EncodeSampleUnclamped(s) ==
    TruncateToInt16(IF s.num < 0 THEN s.num * 32768 ELSE s.num * 32767, s.den)

\* sample = Math.max(-1, Math.min(1, samples[i]));
\* view.setInt16(offset, sample < 0 ? sample * 0x8000 : sample * 0x7FFF, true):
\* the 16-bit value written
EncodeSample(s) ==
    LET sample == IF s.num > s.den THEN Float32(s.den, s.den)
                  ELSE IF s.num < -s.den THEN Float32(-s.den, s.den) ELSE s
    IN  TruncateToInt16(IF sample.num < 0 THEN sample.num * 32768
                        ELSE sample.num * 32767,
                        sample.den)

RECURSIVE PcmData(_)
\* the payload: two bytes per sample, in order
PcmData(samples) ==
    IF samples = <<>> THEN <<>>
    ELSE SetUint16(EncodeSample(Head(samples))) \o PcmData(Tail(samples))

\* samplesToWav(samples, sampleRate, channels): the bytes of the Blob
SamplesToWav(samples, sampleRate, channels) ==
    WriteString("RIFF") \o SetUint32(36 + Len(samples) * 2)
    \o WriteString("WAVE") \o WriteString("fmt ")
    \o SetUint32(16) \o SetUint16(1) \o SetUint16(channels)
    \o SetUint32(sampleRate) \o SetUint32(sampleRate * channels * 2)
    \o SetUint16(channels * 2) \o SetUint16(16)
    \o WriteString("data") \o SetUint32(Len(samples) * 2)
    \o PcmData(samples)

\* a service that is not used, and the arguments of one samplesToWav call
InitWav ==
    /\ circularBuffer = NullBuffer
    /\ audioContext = "null" /\ stream = "null"
    /\ sourceNode = "null" /\ processorNode = "null"
    /\ recordedSamples = <<>> /\ isRecording = FALSE /\ isBuffering = FALSE
    /\ pending = <<>>
    /\ trigger = NoTrigger
    /\ nextFrame = 1
    /\ lastOp = "new"
    /\ ret = NoRet
    /\ sinceClear = <<>>
    /\ cleared = FALSE
    /\ wavIn \in [samples : SeqsUpTo(WavSamples, MaxWavLen),
                  sampleRate : WavSampleRates, channels : WavChannels]
    /\ wavOut = <<>>
    /\ HookIdle
    /\ StoreIdle
    /\ ChunkIdle
    /\ TranscriptionIdle
    /\ chunkBuffer = DefaultChunkBuffer

\* samplesToWav is called with the arguments
SamplesToWavCall ==
    /\ wavOut = <<>>
    /\ wavOut' = SamplesToWav(wavIn.samples, wavIn.sampleRate, wavIn.channels)
    /\ lastOp' = "samplesToWav"
    /\ ret' = [kind |-> "blob", samples |-> <<>>, value |-> Len(wavOut'),
               duration |-> 0]
    /\ UNCHANGED <<wavIn, appVars, bufVars, resVars, svcVars, nextFrame>>

NextWav == SamplesToWavCall

SpecWav == InitWav /\ [][NextWav]_vars

\* ------------------------------------------------------ useAudioRecorder
\* The hook reaches the service through four of its fields; the operators
\* below are the service's methods restricted to those fields.  A value the
\* hook passes to one of its state setters is the value of that state.

SvcInitialize(svc) == [svc EXCEPT !.stream = "live", !.audioContext = "running"]

SvcStartBuffering(svc) == [svc EXCEPT !.isBuffering = TRUE]

SvcStartCaptureThrows(svc) == ~svc.isBuffering

SvcStartCapture(svc) == [svc EXCEPT !.isRecording = TRUE]

\* stopCapture() up to its await, and what decides whether it throws after it
SvcStopCaptureBegin(svc) == [svc EXCEPT !.isRecording = FALSE]

SvcStopCaptureThrows(svc) == svc.audioContext = "null"

SvcCleanup(svc) ==
    [audioContext |-> "null", stream |-> "null",
     isBuffering |-> FALSE, isRecording |-> FALSE]

NotInitialized == "Audio service not initialized"
MustBuffer == "Must start buffering before capturing"
MicrophoneDenied == "Microphone access denied"
NullSampleRate == "TypeError: audioContext is null"

SetError(msg) == recorder' = [recorder EXCEPT !.error = msg]

SetIsRecording(b) == recorder' = [recorder EXCEPT !.isRecording = b]

\* first render: the effect calls initAudio(), which awaits initialize()
HookMount ==
    /\ mounted = "no"
    /\ mounted' = "yes"
    /\ initAudio' = "awaiting"
    /\ lastOp' = "hook.mount"
    /\ ret' = NoRet
    /\ UNCHANGED <<audioServiceRef, recorder, service, hookCalls>>
    /\ UNCHANGED <<wavVars, storeVars, moreVars, bufVars, resVars, svcVars, nextFrame>>

\* initialize() resolves and initAudio() runs to its end
HookInitResolves ==
    /\ initAudio = "awaiting"
    /\ initAudio' = "done"
    /\ service' = SvcStartBuffering(SvcInitialize(service))
    /\ audioServiceRef' = "service"
    /\ recorder' = [recorder EXCEPT !.isInitialized = TRUE, !.isBuffering = TRUE]
    /\ lastOp' = "hook.initAudio"
    /\ ret' = NoRet
    /\ UNCHANGED <<mounted, hookCalls>>
    /\ UNCHANGED <<wavVars, storeVars, moreVars, bufVars, resVars, svcVars, nextFrame>>

\* initialize() rejects and initAudio() catches
HookInitRejects ==
    /\ initAudio = "awaiting"
    /\ initAudio' = "failed"
    /\ SetError(MicrophoneDenied)
    /\ lastOp' = "hook.initAudio"
    /\ ret' = NoRet
    /\ UNCHANGED <<mounted, audioServiceRef, service, hookCalls>>
    /\ UNCHANGED <<wavVars, storeVars, moreVars, bufVars, resVars, svcVars, nextFrame>>

\* unmount: the effect's cleanup function
HookUnmount ==
    /\ mounted = "yes"
    /\ mounted' = "gone"
    /\ service' = IF audioServiceRef # "null" THEN SvcCleanup(service) ELSE service
    /\ lastOp' = "hook.unmount"
    /\ ret' = NoRet
    /\ UNCHANGED <<initAudio, audioServiceRef, recorder, hookCalls>>
    /\ UNCHANGED <<wavVars, storeVars, moreVars, bufVars, resVars, svcVars, nextFrame>>

\* toggleRecording() of the hook, up to the await inside the service's
\* stopCapture() when a capture is stopped, to its end otherwise
HookToggleRecording ==
    /\ mounted # "no"
    /\ (audioServiceRef # "null" /\ service.isRecording) =>
            Len(hookCalls) < MaxHookCalls
    /\ lastOp' = "hook.toggleRecording"
    /\ IF audioServiceRef = "null"
       THEN /\ SetError(NotInitialized)
            /\ ret' = Returned("null")
            /\ UNCHANGED <<service, hookCalls>>
       ELSE IF service.isRecording
       THEN /\ service' = SvcStopCaptureBegin(service)
            /\ hookCalls' = Append(hookCalls, "toggleRecording")
            /\ ret' = NoRet
            /\ UNCHANGED recorder
       ELSE IF SvcStartCaptureThrows(service)
       THEN /\ SetError(MustBuffer)
            /\ ret' = Returned("null")
            /\ UNCHANGED <<service, hookCalls>>
       ELSE /\ service' = SvcStartCapture(service)
            /\ SetIsRecording(TRUE)
            /\ ret' = Returned("null")
            /\ UNCHANGED hookCalls
    /\ UNCHANGED <<mounted, initAudio, audioServiceRef>>
    /\ UNCHANGED <<wavVars, storeVars, moreVars, bufVars, resVars, svcVars, nextFrame>>

\* a buggy variant: the hook's flag is set before the service is asked
HookStartCaptureOptimistic ==
    /\ mounted # "no"
    /\ lastOp' = "hook.startCapture"
    /\ ret' = Returned("undefined")
    /\ IF audioServiceRef = "null"
       THEN /\ SetError(NotInitialized)
            /\ UNCHANGED service
       ELSE IF SvcStartCaptureThrows(service)
       THEN /\ recorder' = [recorder EXCEPT !.isRecording = TRUE,
                                            !.error = MustBuffer]
            /\ UNCHANGED service
       ELSE /\ service' = SvcStartCapture(service)
            /\ SetIsRecording(TRUE)
    /\ UNCHANGED <<mounted, initAudio, audioServiceRef, hookCalls>>
    /\ UNCHANGED <<wavVars, storeVars, moreVars, bufVars, resVars, svcVars, nextFrame>>

\* startCapture() of the hook: no return statement carries a value
HookStartCapture ==
    /\ mounted # "no"
    /\ lastOp' = "hook.startCapture"
    /\ ret' = Returned("undefined")
    /\ IF audioServiceRef = "null"
       THEN /\ SetError(NotInitialized)
            /\ UNCHANGED service
       ELSE IF SvcStartCaptureThrows(service)
       THEN /\ SetError(MustBuffer)
            /\ UNCHANGED service
       ELSE /\ service' = SvcStartCapture(service)
            /\ SetIsRecording(TRUE)
    /\ UNCHANGED <<mounted, initAudio, audioServiceRef, hookCalls>>
    /\ UNCHANGED <<wavVars, storeVars, moreVars, bufVars, resVars, svcVars, nextFrame>>

\* stopCapture() of the hook, up to the await inside the service's
\* stopCapture() when a capture is recording, to its end otherwise
HookStopCapture ==
    /\ mounted # "no"
    /\ (audioServiceRef # "null" /\ service.isRecording) =>
            Len(hookCalls) < MaxHookCalls
    /\ lastOp' = "hook.stopCapture"
    /\ IF audioServiceRef = "null"
       THEN /\ SetError(NotInitialized)
            /\ ret' = Returned("null")
            /\ UNCHANGED <<service, hookCalls>>
       ELSE IF service.isRecording
       THEN /\ service' = SvcStopCaptureBegin(service)
            /\ hookCalls' = Append(hookCalls, "stopCapture")
            /\ ret' = NoRet
            /\ UNCHANGED recorder
       ELSE /\ SetIsRecording(FALSE)
            /\ ret' = Returned("null")
            /\ UNCHANGED <<service, hookCalls>>
    /\ UNCHANGED <<mounted, initAudio, audioServiceRef>>
    /\ UNCHANGED <<wavVars, storeVars, moreVars, bufVars, resVars, svcVars, nextFrame>>

\* the oldest stopCapture() of the service in flight settles, and the hook
\* operation that awaits it runs to its end
HookCallResumes ==
    /\ hookCalls # <<>>
    /\ hookCalls' = Tail(hookCalls)
    /\ lastOp' = IF Head(hookCalls) = "toggleRecording"
                 THEN "hook.toggleRecording.resume"
                 ELSE "hook.stopCapture.resume"
    /\ IF SvcStopCaptureThrows(service)
       THEN /\ SetError(NullSampleRate)
            /\ ret' = Returned("null")
       ELSE /\ SetIsRecording(FALSE)
            /\ ret' = Returned("result")
    /\ UNCHANGED <<mounted, initAudio, audioServiceRef, service>>
    /\ UNCHANGED <<wavVars, storeVars, moreVars, bufVars, resVars, svcVars, nextFrame>>

NextHook ==
    \/ HookMount
    \/ HookInitResolves
    \/ HookInitRejects
    \/ HookUnmount
    \/ HookToggleRecording
    \/ HookStartCapture
    \/ HookStopCapture
    \/ HookCallResumes

SpecHook == Init /\ [][NextHook]_vars

\* ------------------------------------------- storageService, useRecordings
\* A record keeps the fields the operations read or write; its id and its
\* timestamp both come from Date.now().  A call is a storage function under
\* way, with the hook operation that awaits it ("none": called directly).

Ids == 1..MaxIds
Names == {"a", "b"}
Transcriptions == {"text"}

NoUpdates == [field |-> "none", value |-> ""]

NewCall(fn, hook, id, updates, phase) ==
    [fn |-> fn, hook |-> hook, id |-> id, updates |-> updates, phase |-> phase,
     recording |-> NoRecording, data |-> <<>>, error |-> "null"]

NotFound == "Recording not found"
RequestFailed == "DOMException"
EstimateFailed == "TypeError: estimate"

\* db.get, db.put, db.delete and db.getAll on the recordings store
Get(store, id) == IF id \in DOMAIN store THEN store[id] ELSE NoRecording

Put(store, rec) ==
    [i \in DOMAIN store \cup {rec.id} |-> IF i = rec.id THEN rec ELSE store[i]]

Delete(store, id) == [i \in DOMAIN store \ {id} |-> store[i]]

RECURSIVE NewestFirst(_)
NewestFirst(recs) ==
    IF recs = {} THEN <<>>
    ELSE LET newest == CHOOSE r \in recs :
                           \A q \in recs : q.timestamp <= r.timestamp
         IN  <<newest>> \o NewestFirst(recs \ {newest})

GetAllRecordings(store) == NewestFirst({store[i] : i \in DOMAIN store})

\* The 'isFavorite' index: IndexedDB leaves a record out of an index when
\* the value at the index's key path is not a valid key, and a boolean is
\* not one.
ValidKey(v) == v \notin BOOLEAN

IsFavoriteIndex(store) ==
    {store[i] : i \in {k \in DOMAIN store : ValidKey(store[k].isFavorite)}}

\* db.getAllFromIndex(RECORDINGS_STORE, 'isFavorite', 1), newest first
GetFavoriteRecordings(store) ==
    NewestFirst({r \in IsFavoriteIndex(store) : r.isFavorite = 1})

\* { ...recording, ...updates }
ApplyUpdates(recording, updates) ==
    IF updates.field = "name"
    THEN [recording EXCEPT !.name = updates.value]
    ELSE [recording EXCEPT !.transcription = updates.value]

\* a buggy variant: the flag is set instead of inverted
FlipFavoriteSetsFlag(recording) == [recording EXCEPT !.isFavorite = TRUE]

\* recording.isFavorite = !recording.isFavorite
FlipFavorite(recording) == [recording EXCEPT !.isFavorite = ~@]

\* what a storage function writes once its db.get has resolved
Updated(c) ==
    IF c.fn = "toggleFavorite" THEN FlipFavorite(c.recording)
    ELSE ApplyUpdates(c.recording, c.updates)

\* prev.map / prev.filter of the hook's setRecordings
RECURSIVE MapList(_, _, _)
MapList(list, id, c) ==
    IF list = <<>> THEN <<>>
    ELSE LET rec == Head(list)
             new == IF rec.id # id THEN rec
                    ELSE IF c.hook = "renameRecording"
                         THEN [rec EXCEPT !.name = c.updates.value]
                         ELSE [rec EXCEPT !.isFavorite = ~@]
         IN  <<new>> \o MapList(Tail(list), id, c)

FilterList(list, id) == SelectSeq(list, LAMBDA rec : rec.id # id)

Without(seq, i) == SubSeq(seq, 1, i - 1) \o SubSeq(seq, i + 1, Len(seq))

SetCall(i, c) == calls' = [calls EXCEPT ![i] = c]

otherVars == <<wavVars, hookVars, bufVars, resVars, svcVars, nextFrame, moreVars>>

\* a hook operation or a direct call starts: the code up to the first await
BeginCall(c) ==
    /\ Len(calls) < MaxCalls
    /\ calls' = Append(calls, c)
    /\ UNCHANGED <<db, recordings, now, lastOp, ret, otherVars>>

LoadRecordings ==
    /\ BeginCall(NewCall("getAllRecordings", "loadRecordings", 0, NoUpdates,
                         "getAll"))
    /\ recState' = [loading |-> TRUE, error |-> "null"]

AddRecording ==
    /\ now + Cardinality({i \in 1..Len(calls) : calls[i].phase = "add"}) <= MaxAdded
    /\ \E name \in Names :
          BeginCall(NewCall("saveRecording", "addRecording", 0,
                            [field |-> "name", value |-> name], "add"))
    /\ recState' = [recState EXCEPT !.error = "null"]

RenameRecording ==
    /\ \E id \in Ids, name \in Names :
          BeginCall(NewCall("updateRecording", "renameRecording", id,
                            [field |-> "name", value |-> name], "get"))
    /\ recState' = [recState EXCEPT !.error = "null"]

ToggleRecordingFavorite ==
    /\ \E id \in Ids :
          BeginCall(NewCall("toggleFavorite", "toggleRecordingFavorite", id,
                            NoUpdates, "get"))
    /\ recState' = [recState EXCEPT !.error = "null"]

RemoveRecording ==
    /\ \E id \in Ids :
          BeginCall(NewCall("deleteRecording", "removeRecording", id,
                            NoUpdates, "delete"))
    /\ recState' = [recState EXCEPT !.error = "null"]

\* the storage functions called without the hook
SaveRecording ==
    /\ now + Cardinality({i \in 1..Len(calls) : calls[i].phase = "add"}) <= MaxIds
    /\ \E name \in Names :
          BeginCall(NewCall("saveRecording", "none", 0,
                            [field |-> "name", value |-> name], "add"))
    /\ UNCHANGED recState

UpdateRecordingName ==
    /\ \E id \in Ids, name \in Names :
          BeginCall(NewCall("updateRecording", "none", id,
                            [field |-> "name", value |-> name], "get"))
    /\ UNCHANGED recState

UpdateRecordingTranscription ==
    /\ \E id \in Ids, text \in Transcriptions :
          BeginCall(NewCall("updateRecording", "none", id,
                            [field |-> "transcription", value |-> text], "get"))
    /\ UNCHANGED recState

ToggleFavorite ==
    /\ \E id \in Ids :
          BeginCall(NewCall("toggleFavorite", "none", id, NoUpdates, "get"))
    /\ UNCHANGED recState

DeleteRecording ==
    /\ \E id \in Ids :
          BeginCall(NewCall("deleteRecording", "none", id, NoUpdates, "delete"))
    /\ UNCHANGED recState

\* getFavoriteRecordings() is called
GetFavorites ==
    /\ BeginCall(NewCall("getFavoriteRecordings", "none", 0, NoUpdates,
                         "getAllFromIndex"))
    /\ UNCHANGED recState

\* a step of a storage function: one IndexedDB request settles.  A request
\* that writes can fail; the store is then as it was.
Request ==
    UNCHANGED <<recordings, recState, lastOp, ret, otherVars>>

DbAdd ==
    \E i \in 1..Len(calls), ok \in BOOLEAN :
        LET c == calls[i]
            recording == [id |-> now, name |-> c.updates.value,
                          timestamp |-> now, isFavorite |-> FALSE,
                          transcription |-> "null"]
        IN  /\ c.phase = "add"
            /\ Request
            /\ IF ok
               THEN /\ db' = Put(db, recording)
                    /\ now' = now + 1
                    /\ SetCall(i, [c EXCEPT !.phase = "settled",
                                            !.id = recording.id,
                                            !.recording = recording])
               ELSE /\ SetCall(i, [c EXCEPT !.phase = "settled",
                                            !.error = RequestFailed])
                    /\ UNCHANGED <<db, now>>

DbGetAll ==
    \E i \in 1..Len(calls) :
        /\ calls[i].phase = "getAll"
        /\ Request
        /\ SetCall(i, [calls[i] EXCEPT !.phase = "settled",
                                       !.data = GetAllRecordings(db)])
        /\ UNCHANGED <<db, now>>

DbGetAllFromIndex ==
    \E i \in 1..Len(calls) :
        /\ calls[i].phase = "getAllFromIndex"
        /\ Request
        /\ SetCall(i, [calls[i] EXCEPT !.phase = "settled",
                                       !.data = GetFavoriteRecordings(db)])
        /\ UNCHANGED <<db, now>>

\* a buggy variant: a missing record is not reported
DbGetSilent ==
    \E i \in 1..Len(calls) :
        LET c == calls[i]
            recording == Get(db, c.id)
        IN  /\ c.phase = "get"
            /\ Request
            /\ IF recording = NoRecording
               THEN SetCall(i, [c EXCEPT !.phase = "settled"])
               ELSE SetCall(i, [c EXCEPT !.phase = "put", !.recording = recording])
            /\ UNCHANGED <<db, now>>

\* db.get of updateRecording / toggleFavorite settles
DbGet ==
    \E i \in 1..Len(calls) :
        LET c == calls[i]
            recording == Get(db, c.id)
        IN  /\ c.phase = "get"
            /\ Request
            /\ IF recording = NoRecording
               THEN SetCall(i, [c EXCEPT !.phase = "settled", !.error = NotFound])
               ELSE SetCall(i, [c EXCEPT !.phase = "put", !.recording = recording])
            /\ UNCHANGED <<db, now>>

DbPut ==
    \E i \in 1..Len(calls), ok \in BOOLEAN :
        LET c == calls[i]
        IN  /\ c.phase = "put"
            /\ Request
            /\ IF ok
               THEN /\ db' = Put(db, Updated(c))
                    /\ SetCall(i, [c EXCEPT !.phase = "settled",
                                            !.recording = Updated(c)])
               ELSE /\ SetCall(i, [c EXCEPT !.phase = "settled",
                                            !.error = RequestFailed])
                    /\ UNCHANGED db
            /\ UNCHANGED now

DbDelete ==
    \E i \in 1..Len(calls), ok \in BOOLEAN :
        LET c == calls[i]
        IN  /\ c.phase = "delete"
            /\ Request
            /\ IF ok
               THEN /\ db' = Delete(db, c.id)
                    /\ SetCall(i, [c EXCEPT !.phase = "settled"])
               ELSE /\ SetCall(i, [c EXCEPT !.phase = "settled",
                                            !.error = RequestFailed])
                    /\ UNCHANGED db
            /\ UNCHANGED now

Resumed(hook) ==
    CASE hook = "loadRecordings" -> "loadRecordings.resume"
      [] hook = "addRecording" -> "addRecording.resume"
      [] hook = "renameRecording" -> "renameRecording.resume"
      [] hook = "toggleRecordingFavorite" -> "toggleRecordingFavorite.resume"
      [] hook = "removeRecording" -> "removeRecording.resume"
      [] OTHER -> "storage.resume"

\* what a hook operation hands its caller when it fails: loadRecordings
\* swallows the error, the others rethrow it
Failed(hook) ==
    IF hook = "loadRecordings" THEN Returned("undefined") ELSE Returned("throw")

\* catch (err) { setError(err.message) }, and loadRecordings' finally
Caught(c) ==
    [loading |-> IF c.hook = "loadRecordings" THEN FALSE ELSE recState.loading,
     error |-> c.error]

\* a buggy variant: the list is updated before the outcome is looked at
StorageCallSettlesOptimistic ==
    \E i \in 1..Len(calls) :
        LET c == calls[i]
        IN  /\ c.phase = "settled"
            /\ lastOp' = Resumed(c.hook)
            /\ UNCHANGED <<db, now, otherVars>>
            /\ IF c.hook = "none"
               THEN /\ calls' = Without(calls, i)
                    /\ ret' = IF c.error # "null" THEN Returned("throw")
                              ELSE Returned("result")
                    /\ UNCHANGED <<recordings, recState>>
               ELSE IF c.hook \in {"renameRecording", "toggleRecordingFavorite"}
               THEN /\ calls' = Without(calls, i)
                    /\ recordings' = MapList(recordings, c.id, c)
                    /\ IF c.error # "null"
                       THEN /\ recState' = Caught(c)
                            /\ ret' = Failed(c.hook)
                       ELSE /\ ret' = Returned("undefined")
                            /\ UNCHANGED recState
               ELSE IF c.error # "null"
               THEN /\ calls' = Without(calls, i)
                    /\ recState' = Caught(c)
                    /\ ret' = Failed(c.hook)
                    /\ UNCHANGED recordings
               ELSE /\ SetCall(i, [c EXCEPT !.phase = "info"])
                    /\ recordings' =
                          IF c.hook = "loadRecordings" THEN c.data
                          ELSE IF c.hook = "addRecording"
                               THEN <<c.recording>> \o recordings
                               ELSE FilterList(recordings, c.id)
                    /\ ret' = NoRet
                    /\ UNCHANGED recState

\* the storage function of a call has settled: the code that awaits it
\* runs to its next await, or to its end
StorageCallSettles ==
    \E i \in 1..Len(calls) :
        LET c == calls[i]
        IN  /\ c.phase = "settled"
            /\ lastOp' = Resumed(c.hook)
            /\ UNCHANGED <<db, now, otherVars>>
            /\ IF c.hook = "none"
               THEN /\ calls' = Without(calls, i)
                    /\ ret' = IF c.error # "null" THEN Returned("throw")
                              ELSE Returned("result")
                    /\ UNCHANGED <<recordings, recState>>
               ELSE IF c.error # "null"
               THEN /\ calls' = Without(calls, i)
                    /\ recState' = Caught(c)
                    /\ ret' = Failed(c.hook)
                    /\ UNCHANGED recordings
               ELSE IF c.hook \in {"renameRecording", "toggleRecordingFavorite"}
               THEN /\ calls' = Without(calls, i)
                    /\ recordings' = MapList(recordings, c.id, c)
                    /\ ret' = Returned("undefined")
                    /\ UNCHANGED recState
               ELSE /\ SetCall(i, [c EXCEPT !.phase = "info"])
                    /\ recordings' =
                          IF c.hook = "loadRecordings" THEN c.data
                          ELSE IF c.hook = "addRecording"
                               THEN <<c.recording>> \o recordings
                               ELSE FilterList(recordings, c.id)
                    /\ ret' = NoRet
                    /\ UNCHANGED recState

\* getStorageInfo() settles under loadRecordings, addRecording or
\* removeRecording: navigator.storage.estimate() resolves or rejects
GetStorageInfoSettles ==
    \E i \in 1..Len(calls), ok \in BOOLEAN :
        LET c == calls[i]
        IN  /\ c.phase = "info"
            /\ lastOp' = "getStorageInfo.resume"
            /\ calls' = Without(calls, i)
            /\ IF ok
               THEN /\ recState' = [recState EXCEPT !.loading =
                            IF c.hook = "loadRecordings" THEN FALSE ELSE @]
                    /\ ret' = IF c.hook = "addRecording" THEN Returned("result")
                              ELSE Returned("undefined")
               ELSE /\ recState' = Caught([c EXCEPT !.error = EstimateFailed])
                    /\ ret' = Failed(c.hook)
            /\ UNCHANGED <<db, recordings, now, otherVars>>

NextStorage ==
    \/ SaveRecording
    \/ UpdateRecordingName
    \/ UpdateRecordingTranscription
    \/ ToggleFavorite
    \/ DeleteRecording
    \/ GetFavorites
    \/ DbAdd
    \/ DbGetAllFromIndex
    \/ DbGet
    \/ DbPut
    \/ DbDelete
    \/ StorageCallSettles

SpecStorage == Init /\ [][NextStorage]_vars

NextRecordings ==
    \/ LoadRecordings
    \/ AddRecording
    \/ RenameRecording
    \/ ToggleRecordingFavorite
    \/ RemoveRecording
    \/ DbAdd
    \/ DbGetAll
    \/ DbGet
    \/ DbPut
    \/ DbDelete
    \/ StorageCallSettles
    \/ GetStorageInfoSettles

SpecRecordings == Init /\ [][NextRecordings]_vars

\* ------------------------------------- CircularAudioBuffer (chunk-based)
\* A Blob is known by the order it was made in and by its size; NoBlob is
\* a missing one (null or undefined).
NoBlob == [null |-> TRUE, tag |-> 0, size |-> 0]

Blob(tag, size) == [null |-> FALSE, tag |-> tag, size |-> size]

ChunkWindows == {500 * k : k \in 1..MaxChunkDur}
ChunkDurations == {500, CHUNK_DURATION_MS}
BlobSizes == {0, 1, 2}

\* a buggy variant: the oldest chunk is never removed
AddChunkUnbounded(buf, blob) ==
    IF ~blob.null /\ blob.size > 0
    THEN [buf EXCEPT !.chunks = Append(buf.chunks, blob)]
    ELSE buf

\* addChunk(blob)
AddChunk(buf, blob) ==
    IF ~blob.null /\ blob.size > 0
    THEN LET pushed == Append(buf.chunks, blob)
         IN  [buf EXCEPT !.chunks = IF Len(pushed) > buf.maxChunks
                                    THEN Tail(pushed)
                                    ELSE pushed]
    ELSE buf

\* getChunks(): a copy
GetChunks(buf) == buf.chunks

\* clear()
ClearChunks(buf) == [buf EXCEPT !.chunks = <<>>]

\* size()
ChunkCount(buf) == Len(buf.chunks)

\* what addChunk(blob) adds to the history of non-empty chunks
Remembered(blob) == IF ~blob.null /\ blob.size > 0 THEN <<blob>> ELSE <<>>

chunkRest == <<chunkService, chunkStops, misuse>>
nonChunkVars == <<wavVars, hookVars, storeVars, txVars, bufVars, resVars,
                  svcVars, nextFrame>>

InitChunkBuffer ==
    /\ circularBuffer = NullBuffer
    /\ ServiceIdle
    /\ nextFrame = 1
    /\ lastOp = "new"
    /\ ret = NoRet
    /\ sinceClear = <<>>
    /\ cleared = FALSE
    /\ \E d \in ChunkWindows, c \in ChunkDurations :
          chunkBuffer = NewChunkBuffer(d, c)

ChunkBufferAdd ==
    /\ nextChunk <= MaxBlobs
    /\ \E blob \in {NoBlob} \cup {Blob(nextChunk, size) : size \in BlobSizes} :
          /\ chunkBuffer' = AddChunk(chunkBuffer, blob)
          /\ chunkAdded' = chunkAdded \o Remembered(blob)
    /\ nextChunk' = nextChunk + 1
    /\ lastOp' = "addChunk"
    /\ ret' = Returned("undefined")
    /\ UNCHANGED <<chunkRest, nonChunkVars>>

ChunkBufferClear ==
    /\ chunkBuffer' = ClearChunks(chunkBuffer)
    /\ chunkAdded' = <<>>
    /\ lastOp' = "clear"
    /\ ret' = Returned("undefined")
    /\ UNCHANGED <<nextChunk, chunkRest, nonChunkVars>>

NextChunkBuffer ==
    \/ ChunkBufferAdd
    \/ ChunkBufferClear

SpecChunkBuffer == InitChunkBuffer /\ [][NextChunkBuffer]_vars

\* ---------------------------------- AudioRecordingService (chunk-based)
\* MediaRecorder: start() throws InvalidStateError unless the recorder is
\* inactive; stop() does nothing on an inactive recorder, and otherwise
\* makes it inactive and owes one final dataavailable event, then onstop.
\* A recorder stops by itself when the tracks of its stream are stopped.

ChunkReturn(op, kind) ==
    /\ lastOp' = op
    /\ ret' = Returned(kind)

\* initialize() succeeds, on a service that holds no recorder
ChunkInitialize ==
    /\ chunkService.mediaRecorder = "null"
    /\ chunkService' = [chunkService EXCEPT !.stream = "live",
                                            !.mediaRecorder = "inactive"]
    /\ ChunkReturn("chunk.initialize", "true")
    /\ UNCHANGED <<chunkBuffer, chunkAdded, chunkStops, nextChunk, misuse, nonChunkVars>>

\* initialize() fails: unsupported browser, or getUserMedia rejects
ChunkInitializeFails ==
    /\ chunkService.mediaRecorder = "null"
    /\ ChunkReturn("chunk.initialize", "throw")
    /\ UNCHANGED <<chunkVars, nonChunkVars>>

\* startBuffering()
ChunkStartBuffering ==
    /\ lastOp' = "chunk.startBuffering"
    /\ IF chunkService.mediaRecorder = "null"
       THEN /\ ret' = Returned("throw")
            /\ UNCHANGED <<chunkService, misuse>>
       ELSE IF chunkService.isBuffering
       THEN /\ ret' = Returned("undefined")
            /\ UNCHANGED <<chunkService, misuse>>
       ELSE IF chunkService.mediaRecorder = "recording"
       THEN /\ misuse' = misuse \cup {"start"}
            /\ ret' = Returned("throw")
            /\ UNCHANGED chunkService
       ELSE /\ chunkService' = [chunkService EXCEPT !.mediaRecorder = "recording",
                                                    !.isBuffering = TRUE]
            /\ ret' = Returned("undefined")
            /\ UNCHANGED misuse
    /\ UNCHANGED <<chunkBuffer, chunkAdded, chunkStops, nextChunk, nonChunkVars>>

\* stopBuffering()
ChunkStopBuffering ==
    /\ chunkService.owedMedia < MaxStray
    /\ ChunkReturn("chunk.stopBuffering", "undefined")
    /\ IF chunkService.mediaRecorder # "null" /\ chunkService.isBuffering
       THEN IF chunkService.mediaRecorder = "inactive"
            THEN /\ misuse' = misuse \cup {"stop"}
                 /\ chunkService' = [chunkService EXCEPT !.isBuffering = FALSE]
            ELSE /\ chunkService' = [chunkService EXCEPT
                                        !.mediaRecorder = "inactive",
                                        !.owedMedia = @ + 1,
                                        !.isBuffering = FALSE]
                 /\ UNCHANGED misuse
       ELSE UNCHANGED <<chunkService, misuse>>
    /\ UNCHANGED <<chunkBuffer, chunkAdded, chunkStops, nextChunk, nonChunkVars>>

\* startCapture(); op names the caller
ChunkStartCaptureBody(op) ==
    /\ chunkService.owedMedia < MaxStray
    /\ chunkService.strayRecording < MaxStray
    /\ lastOp' = op
    /\ IF ~chunkService.isBuffering
       THEN /\ ret' = Returned("throw")
            /\ UNCHANGED chunkService
       ELSE /\ chunkService' = [chunkService EXCEPT
                 !.currentRecording = GetChunks(chunkBuffer),
                 !.isRecording = TRUE,
                 !.mediaRecorder = IF @ = "recording" THEN "inactive" ELSE @,
                 !.owedMedia = IF chunkService.mediaRecorder = "recording"
                               THEN @ + 1 ELSE @,
                 !.strayRecording = IF chunkService.recordingMediaRecorder
                                          = "recording"
                                    THEN @ + 1 ELSE @,
                 !.recordingMediaRecorder = "recording"]
            /\ ret' = IF op = "chunk.toggleRecording" THEN Returned("null")
                      ELSE Returned("undefined")
    /\ UNCHANGED <<chunkBuffer, chunkAdded, chunkStops, nextChunk, misuse, nonChunkVars>>

ChunkStartCapture == ChunkStartCaptureBody("chunk.startCapture")

\* what stopCapture() returns, and the rest of it from the Blob on
ChunkResult(svc) ==
    [kind |-> "result", samples |-> svc.currentRecording,
     value |-> Len(svc.currentRecording),
     duration |-> Len(svc.currentRecording) * CHUNK_DURATION_MS]

\* a buggy variant: the buffering recorder is not started again
ChunkStopTailNoRestart(svc) == [svc EXCEPT !.currentRecording = <<>>]

ChunkStopTail(svc) ==
    [svc EXCEPT !.currentRecording = <<>>,
                !.mediaRecorder = IF @ = "inactive" THEN "recording" ELSE @]

\* stopCapture() up to its await, or to its end when it does not wait
ChunkStopCaptureBody(op) ==
    /\ lastOp' = op
    /\ IF ~chunkService.isRecording
       THEN /\ ret' = Returned("null")
            /\ UNCHANGED <<chunkService, chunkStops>>
       ELSE LET stopped == [chunkService EXCEPT !.isRecording = FALSE]
            IN  IF chunkService.recordingMediaRecorder = "recording"
                THEN /\ chunkStops < MaxChunkStops
                     /\ chunkStops' = chunkStops + 1
                     /\ chunkService' =
                           [stopped EXCEPT !.recordingMediaRecorder = "inactive"]
                     /\ ret' = Returned("pending")
                ELSE /\ chunkService' = ChunkStopTail(stopped)
                     /\ ret' = ChunkResult(stopped)
                     /\ UNCHANGED chunkStops
    /\ UNCHANGED <<chunkBuffer, chunkAdded, nextChunk, misuse, nonChunkVars>>

ChunkStopCapture == ChunkStopCaptureBody("chunk.stopCapture")

\* toggleRecording()
ChunkToggleRecording ==
    IF chunkService.isRecording
    THEN ChunkStopCaptureBody("chunk.toggleRecording")
    ELSE ChunkStartCaptureBody("chunk.toggleRecording")

\* the blobs a recorder may deliver next
NextBlobs ==
    {Blob(nextChunk, size) :
        size \in IF nextChunk <= MaxSvcChunks THEN {0, 1} ELSE {0}}

\* recordingMediaRecorder.ondataavailable
RecordingData(svc, blob) ==
    IF blob.size > 0
    THEN [svc EXCEPT !.currentRecording = Append(@, blob)]
    ELSE svc

\* a stopped capture recorder delivers its last chunk and fires onstop:
\* the stopCapture() that waits for it runs to its end
ChunkStopResumes ==
    /\ chunkStops > 0
    /\ chunkStops' = chunkStops - 1
    /\ lastOp' = "chunk.stopCapture.resume"
    /\ \E blob \in NextBlobs :
          LET svc == RecordingData(chunkService, blob)
          IN  /\ chunkService' = ChunkStopTail(svc)
              /\ ret' = ChunkResult(svc)
              /\ nextChunk' = IF blob.size > 0 THEN nextChunk + 1 ELSE nextChunk
    /\ UNCHANGED <<chunkBuffer, chunkAdded, misuse, nonChunkVars>>

\* mediaRecorder.ondataavailable: a timeslice of the buffering recorder
\* ends, or a stopped one delivers its last chunk
ChunkMediaData ==
    /\ \E final \in BOOLEAN, blob \in NextBlobs :
          /\ IF final THEN chunkService.owedMedia > 0
                      ELSE chunkService.mediaRecorder = "recording"
          /\ LET owed == IF final THEN chunkService.owedMedia - 1
                         ELSE chunkService.owedMedia
                 svc == [chunkService EXCEPT !.owedMedia = owed]
             IN  IF blob.size > 0
                 THEN /\ chunkBuffer' = AddChunk(chunkBuffer, blob)
                      /\ chunkAdded' = chunkAdded \o Remembered(blob)
                      /\ chunkService' =
                            IF svc.isRecording
                            THEN [svc EXCEPT !.currentRecording = Append(@, blob)]
                            ELSE svc
                      /\ nextChunk' = nextChunk + 1
                 ELSE /\ chunkService' = svc
                      /\ UNCHANGED <<chunkBuffer, chunkAdded, nextChunk>>
    /\ lastOp' = "chunk.mediaRecorder.ondataavailable"
    /\ ret' = NoRet
    /\ UNCHANGED <<chunkStops, misuse, nonChunkVars>>

\* recordingMediaRecorder.ondataavailable: a timeslice of a capture recorder
\* ends, or one that was stopped without a stopCapture() waiting for it
\* delivers its last chunk
ChunkRecordingData ==
    /\ \E final \in BOOLEAN, blob \in NextBlobs :
          /\ IF final THEN chunkService.owedRecording > 0
                      ELSE \/ chunkService.recordingMediaRecorder = "recording"
                           \/ chunkService.strayRecording > 0
          /\ LET owed == IF final THEN chunkService.owedRecording - 1
                         ELSE chunkService.owedRecording
             IN  chunkService' =
                    RecordingData([chunkService EXCEPT !.owedRecording = owed],
                                  blob)
          /\ nextChunk' = IF blob.size > 0 THEN nextChunk + 1 ELSE nextChunk
    /\ lastOp' = "chunk.recordingMediaRecorder.ondataavailable"
    /\ ret' = NoRet
    /\ UNCHANGED <<chunkBuffer, chunkAdded, chunkStops, misuse, nonChunkVars>>

\* cleanup(): every recorder that records stops, by stop() or because the
\* tracks of its stream are stopped
ChunkCleanup ==
    LET owedMedia == chunkService.owedMedia
               + (IF chunkService.mediaRecorder = "recording" THEN 1 ELSE 0)
        owedRecording == chunkService.owedRecording + chunkService.strayRecording
               + (IF chunkService.recordingMediaRecorder = "recording"
                  THEN 1 ELSE 0)
    IN  /\ owedMedia <= MaxStray
        /\ owedRecording <= MaxStray
        /\ misuse' = IF /\ chunkService.mediaRecorder = "inactive"
                        /\ chunkService.isBuffering
                     THEN misuse \cup {"stop"} ELSE misuse
        /\ chunkService' = [NewChunkService EXCEPT
                               !.owedMedia = owedMedia,
                               !.owedRecording = owedRecording]
        /\ chunkBuffer' = ClearChunks(chunkBuffer)
        /\ chunkAdded' = <<>>
        /\ ChunkReturn("chunk.cleanup", "undefined")
        /\ UNCHANGED <<chunkStops, nextChunk, nonChunkVars>>

NextChunk ==
    \/ ChunkInitialize
    \/ ChunkInitializeFails
    \/ ChunkStartBuffering
    \/ ChunkStopBuffering
    \/ ChunkStartCapture
    \/ ChunkStopCapture
    \/ ChunkToggleRecording
    \/ ChunkStopResumes
    \/ ChunkMediaData
    \/ ChunkRecordingData
    \/ ChunkCleanup

SpecChunk == Init /\ [][NextChunk]_vars

\* ---------------------------------------------------- transcriptionService
\* A call under way is the function that was called, the promise that its
\* initTranscriptionPipeline() returned (0: the pipeline itself, already
\* loaded) and the await it is suspended at.

nonTxVars == <<wavVars, hookVars, storeVars, chunkVars, bufVars, resVars,
               svcVars, nextFrame>>

TranscriptionFns == {"preloadTranscriptionModel", "transcribeAudio"}

\* a buggy variant: a load under way is not looked for
InitTranscriptionPipelineAnew(fn) ==
    /\ Len(transcriptions) < MaxTranscriptions
    /\ lastOp' = fn
    /\ ret' = NoRet
    /\ IF transcriptionPipeline # "null"
       THEN /\ transcriptions' =
                  Append(transcriptions,
                         [fn |-> fn, promise |-> 0, phase |-> "init"])
            /\ UNCHANGED <<isLoading, loadingPromise, pipelineCalls>>
       ELSE /\ Len(pipelineCalls) < MaxLoads
            /\ isLoading' = TRUE
            /\ pipelineCalls' = Append(pipelineCalls, "pending")
            /\ loadingPromise' = Len(pipelineCalls) + 1
            /\ transcriptions' =
                  Append(transcriptions,
                         [fn |-> fn, promise |-> Len(pipelineCalls) + 1,
                          phase |-> "init"])
    /\ UNCHANGED <<transcriptionPipeline, nonTxVars>>

\* fn is called and calls initTranscriptionPipeline(), up to fn's await
InitTranscriptionPipeline(fn) ==
    /\ Len(transcriptions) < MaxTranscriptions
    /\ lastOp' = fn
    /\ ret' = NoRet
    /\ IF transcriptionPipeline # "null"
       THEN /\ transcriptions' =
                  Append(transcriptions,
                         [fn |-> fn, promise |-> 0, phase |-> "init"])
            /\ UNCHANGED <<isLoading, loadingPromise, pipelineCalls>>
       ELSE IF isLoading
       THEN /\ transcriptions' =
                  Append(transcriptions,
                         [fn |-> fn, promise |-> loadingPromise,
                          phase |-> "init"])
            /\ UNCHANGED <<isLoading, loadingPromise, pipelineCalls>>
       ELSE /\ Len(pipelineCalls) < MaxLoads
            /\ isLoading' = TRUE
            /\ pipelineCalls' = Append(pipelineCalls, "pending")
            /\ loadingPromise' = Len(pipelineCalls) + 1
            /\ transcriptions' =
                  Append(transcriptions,
                         [fn |-> fn, promise |-> Len(pipelineCalls) + 1,
                          phase |-> "init"])
    /\ UNCHANGED <<transcriptionPipeline, nonTxVars>>

PreloadTranscriptionModel ==
    InitTranscriptionPipeline("preloadTranscriptionModel")

TranscribeAudio == InitTranscriptionPipeline("transcribeAudio")

\* pipeline() resolves: the .then callback
PipelineLoads ==
    \E n \in 1..Len(pipelineCalls) :
        /\ pipelineCalls[n] = "pending"
        /\ pipelineCalls' = [pipelineCalls EXCEPT ![n] = "loaded"]
        /\ transcriptionPipeline' = "pipe"
        /\ isLoading' = FALSE
        /\ lastOp' = "pipeline.then"
        /\ ret' = NoRet
        /\ UNCHANGED <<loadingPromise, transcriptions, nonTxVars>>

\* pipeline() rejects: the .catch callback
PipelineFails ==
    \E n \in 1..Len(pipelineCalls) :
        /\ pipelineCalls[n] = "pending"
        /\ pipelineCalls' = [pipelineCalls EXCEPT ![n] = "failed"]
        /\ isLoading' = FALSE
        /\ loadingPromise' = 0
        /\ lastOp' = "pipeline.catch"
        /\ ret' = NoRet
        /\ UNCHANGED <<transcriptionPipeline, transcriptions, nonTxVars>>

\* the promise a call awaits has settled
InitSettled(c) ==
    IF c.promise = 0 THEN TRUE ELSE pipelineCalls[c.promise] # "pending"

InitFailed(c) ==
    IF c.promise = 0 THEN FALSE ELSE pipelineCalls[c.promise] = "failed"

\* the await of initTranscriptionPipeline() ends: preloadTranscriptionModel
\* returns or throws, transcribeAudio throws or goes on to prepare the audio
TranscriptionResumes ==
    \E i \in 1..Len(transcriptions) :
        LET c == transcriptions[i]
        IN  /\ c.phase = "init"
            /\ InitSettled(c)
            /\ lastOp' = IF c.fn = "transcribeAudio"
                         THEN "transcribeAudio.resume"
                         ELSE "preloadTranscriptionModel.resume"
            /\ IF InitFailed(c)
               THEN /\ transcriptions' = Without(transcriptions, i)
                    /\ ret' = Returned("throw")
               ELSE IF c.fn = "preloadTranscriptionModel"
               THEN /\ transcriptions' = Without(transcriptions, i)
                    /\ ret' = Returned("result")
               ELSE /\ transcriptions' =
                          [transcriptions EXCEPT ![i].phase = "prepare"]
                    /\ ret' = NoRet
            /\ UNCHANGED <<transcriptionPipeline, isLoading, loadingPromise,
                           pipelineCalls, nonTxVars>>

\* prepareAudioForTranscription() settles: the audio is decoded, or not
TranscriptionPrepared ==
    \E i \in 1..Len(transcriptions), ok \in BOOLEAN :
        /\ transcriptions[i].phase = "prepare"
        /\ lastOp' = "transcribeAudio.prepared"
        /\ IF ok
           THEN /\ transcriptions' =
                      [transcriptions EXCEPT ![i].phase = "pipe"]
                /\ ret' = NoRet
           ELSE /\ transcriptions' = Without(transcriptions, i)
                /\ ret' = Returned("throw")
        /\ UNCHANGED <<transcriptionPipeline, isLoading, loadingPromise,
                       pipelineCalls, nonTxVars>>

\* pipe(audioData, ...) settles: transcribeAudio returns the text, or throws
TranscriptionCompletes ==
    \E i \in 1..Len(transcriptions), ok \in BOOLEAN :
        /\ transcriptions[i].phase = "pipe"
        /\ lastOp' = "transcribeAudio.transcribed"
        /\ transcriptions' = Without(transcriptions, i)
        /\ ret' = IF ok THEN Returned("result") ELSE Returned("throw")
        /\ UNCHANGED <<transcriptionPipeline, isLoading, loadingPromise,
                       pipelineCalls, nonTxVars>>

\* getTranscriptionStatus()
GetTranscriptionStatus ==
    [isReady |-> transcriptionPipeline # "null", isLoading |-> isLoading]

NextTranscription ==
    \/ PreloadTranscriptionModel
    \/ TranscribeAudio
    \/ PipelineLoads
    \/ PipelineFails
    \/ TranscriptionResumes
    \/ TranscriptionPrepared
    \/ TranscriptionCompletes

SpecTranscription == Init /\ [][NextTranscription]_vars

\* ------------------------------------------------- reference for the claims
\* frame i of a batch as the buffer stores it: one value per buffer channel
FrameOf(audioData, i, channels) ==
    [ch \in 1..channels |-> IF ch <= Len(audioData) THEN audioData[ch][i] ELSE 0]

RECURSIVE FramesOf(_, _)
\* the frames of a sequence of batches, in the order they were added
FramesOf(batches, channels) ==
    IF batches = <<>> THEN <<>>
    ELSE LET last == batches[Len(batches)]
         IN  FramesOf(SubSeq(batches, 1, Len(batches) - 1), channels)
             \o [i \in 1..Len(last[1]) |-> FrameOf(last, i, channels)]

RECURSIVE Interleave(_)
Interleave(frames) ==
    IF frames = <<>> THEN <<>> ELSE Head(frames) \o Interleave(Tail(frames))

LastN(s, n) == SubSeq(s, Len(s) - n + 1, Len(s))

AddedFrames == FramesOf(sinceClear, circularBuffer.channels)

RECURSIVE Replay(_, _)
Replay(b, batches) ==
    IF batches = <<>> THEN b
    ELSE Replay(AddSamples(b, Head(batches)), Tail(batches))

\* a freshly constructed buffer with the capacity, rate and channels of b
FreshLike(b) ==
    NewBuffer((1000 * b.maxSamples) \div b.sampleRate, b.sampleRate, b.channels)

\* ------------------------------------------------------------------- C5
\* C5: with no clear in between, the number of frames getSamples() returns
\* and getSampleCount() reports is min(frames added, maxSamples), so it is
\* never above the capacity.
C5_CountIsMinOfAddedAndCapacity ==
    LET n == Len(AddedFrames)
        held == Min(n, circularBuffer.maxSamples)
    IN  /\ Len(GetSamples(circularBuffer)) = held * circularBuffer.channels
        /\ GetSampleCount(circularBuffer) = held
        /\ GetSampleCount(circularBuffer) <= circularBuffer.maxSamples
        /\ ret.kind = "count" => ret.value = held
        /\ ret.kind = "samples" => Len(ret.samples) = held * circularBuffer.channels

C5_Witness ==
    /\ Len(AddedFrames) > circularBuffer.maxSamples
    /\ ret.kind = "count"
    /\ ret.value = circularBuffer.maxSamples

\* ------------------------------------------------------------------- C6
\* C6: getSamples() returns exactly the last min(n, C) frames added, oldest
\* first, each frame's channels interleaved in channel order.
C6_LastFramesInOrder ==
    LET held == Min(Len(AddedFrames), circularBuffer.maxSamples)
        expected == Interleave(LastN(AddedFrames, held))
    IN  /\ GetSamples(circularBuffer) = expected
        /\ ret.kind = "samples" => ret.samples = expected

\* capacity 4, one channel, frames 1..6 added: frames 3,4,5,6 come back
C6_Witness ==
    /\ circularBuffer.maxSamples = 4
    /\ circularBuffer.channels = 1
    /\ Len(AddedFrames) = 6
    /\ ret.kind = "samples"
    /\ ret.samples = <<Sample(3, 1), Sample(4, 1), Sample(5, 1), Sample(6, 1)>>

\* ------------------------------------------------------------------- C7
\* C7: 0 <= writeIndex < maxSamples and writeIndex = samplesWritten mod
\* maxSamples in every state, and samplesWritten decreases only by clear().
C7_IndexInvariant ==
    /\ [](/\ 0 <= circularBuffer.writeIndex
          /\ circularBuffer.writeIndex < circularBuffer.maxSamples
          /\ circularBuffer.writeIndex =
                circularBuffer.samplesWritten % circularBuffer.maxSamples)
    /\ [][circularBuffer'.samplesWritten < circularBuffer.samplesWritten
             => lastOp' = "clear"]_vars

C7_Witness ==
    /\ cleared
    /\ circularBuffer.samplesWritten > circularBuffer.maxSamples
    /\ circularBuffer.writeIndex > 0

\* ------------------------------------------------------------------- C8
\* C8: getSamples() leaves the store, writeIndex and samplesWritten as they
\* were, and a second getSamples() right after it returns the same sequence.
C8_GetSamplesReadOnly ==
    [][lastOp' = "getSamples"
          => /\ circularBuffer' = circularBuffer
             /\ GetSamples(circularBuffer') = ret'.samples
             /\ (lastOp = "getSamples" => ret'.samples = ret.samples)]_vars

C8_Witness ==
    /\ lastOp = "getSamples"
    /\ circularBuffer.samplesWritten > circularBuffer.maxSamples
    /\ circularBuffer.writeIndex > 0
    /\ Len(ret.samples) = BufferLength(circularBuffer)

\* ------------------------------------------------------------------- C9
\* C9: after clear() the buffer is empty, and whatever is added afterwards,
\* getSamples()/getSampleCount() answer as a freshly constructed buffer of
\* the same capacity does for the same additions.
C9_ClearGivesFreshBuffer ==
    cleared =>
        LET fresh == Replay(FreshLike(circularBuffer), sinceClear)
        IN  /\ sinceClear = <<>> => Len(GetSamples(circularBuffer)) = 0
            /\ GetSamples(circularBuffer) = GetSamples(fresh)
            /\ GetSampleCount(circularBuffer) = GetSampleCount(fresh)

C9_Witness ==
    /\ cleared
    /\ lastOp = "addSamples"
    /\ Len(AddedFrames) = 1
    /\ nextFrame > 3

\* ------------------------------------------------------------------- C1
\* C1: frames arrive while Buffering, startCapture(), frames arrive while
\* Capturing, stopCapture(): the recording returned is the window as it was
\* at the startCapture() followed by the session's frames, no frame twice
\* and none missing at the splice.
C1_SpliceIsWindowThenSession ==
    [][(/\ lastOp = "stopCapture" /\ ret.kind = "pending"
        /\ lastOp' = "stopCapture.resume"
        /\ Len(pending) = 1 /\ Head(pending).plain)
          => /\ ret'.kind = "result"
             /\ ret'.samples = Head(pending).pre \o Head(pending).session]_vars

\* ------------------------------------------------------------------- C2
\* C2: under every interleaving of frame deliveries, startCapture(),
\* stopCapture() and toggleRecording(), every frame appended to the session
\* between a startCapture() and the stopCapture() that ends the capture is
\* in the result that stopCapture() returns.
C2_CapturedFramesAreReturned ==
    [][lastOp' = "stopCapture.resume"
          => /\ ret'.kind = "result"
             /\ \A k \in 1..Len(Head(pending).session) :
                   \E j \in 1..Len(ret'.samples) :
                       ret'.samples[j] = Head(pending).session[k]]_vars

\* ------------------------------------------------------------------- C3
\* C3: startCapture() during a capture is rejected and leaves the session's
\* frames and the recording flag as they were.
C3_StartWhileCapturingRejected ==
    [][(lastOp' = "startCapture" /\ isRecording)
          => /\ ret'.kind = "throw"
             /\ recordedSamples' = recordedSamples
             /\ isRecording' = isRecording]_vars

\* ------------------------------------------------------------------- C4
\* C4: the machine is Idle, Buffering or Capturing (isRecording implies
\* isBuffering) and the session holds frames only while Capturing.
C4_ThreeStates ==
    /\ isRecording => isBuffering
    /\ recordedSamples # <<>> => (isRecording /\ isBuffering)

\* ------------------------------------------------------------------ C10
\* C10: stopCapture() while not recording returns null and leaves the ring
\* buffer, the session, both flags and the waiting calls as they were.
C10_StopWhenNotCapturingIsNoOp ==
    [][(lastOp' = "stopCapture" /\ ~isRecording)
          => /\ ret'.kind = "null"
             /\ UNCHANGED <<circularBuffer, recordedSamples, isRecording,
                            isBuffering, pending, resVars>>]_vars

C10_Witness ==
    /\ lastOp = "stopCapture"
    /\ ret.kind = "null"
    /\ isBuffering
    /\ circularBuffer.samplesWritten > circularBuffer.maxSamples
    /\ recordedSamples # <<>>
    /\ pending # <<>>

\* ------------------------------------------------------------------ C11
\* C11: startCapture() called in any state other than Buffering (buffering
\* and not recording) fails with an error, and leaves the recording flag,
\* the session and the ring buffer as they were.
C11_StartOutsideBufferingFails ==
    [][(lastOp' = "startCapture" /\ ~(isBuffering /\ ~isRecording))
          => /\ ret'.kind = "throw"
             /\ UNCHANGED <<isRecording, recordedSamples, circularBuffer>>]_vars

\* ------------------------------------------------------------------ C12
\* C12: startBuffering() without an audio context (before initialize() or
\* after cleanup()) throws and leaves the service Idle and otherwise
\* untouched; with one it sets the buffering flag and changes nothing else,
\* and changes nothing at all when the service is buffering already.
C12_StartBuffering ==
    [][lastOp' = "startBuffering"
          => IF audioContext = "null"
             THEN /\ ret'.kind = "throw"
                  /\ ~isBuffering' /\ ~isRecording'
                  /\ UNCHANGED <<isBuffering, isRecording, circularBuffer,
                                 recordedSamples, pending, resVars>>
             ELSE /\ ret'.kind = "undefined"
                  /\ isBuffering'
                  /\ UNCHANGED <<isRecording, circularBuffer, recordedSamples,
                                 pending, resVars>>
                  /\ isBuffering => UNCHANGED isBuffering]_vars

C12_Witness ==
    /\ lastOp = "startBuffering"
    /\ ret.kind = "throw"
    /\ cleared
    /\ circularBuffer # NullBuffer
    /\ nextFrame > 1

\* ------------------------------------------------------------------ C13
\* C13: a batch delivered while buffering is added to the ring buffer in
\* the same way whether or not a capture is recording, and while one is
\* recording the same batch is also appended to the session; startCapture(),
\* stopCapture(), toggleRecording() and a resuming stopCapture() leave the
\* ring buffer as it was.
C13_RingIgnoresCapture ==
    [][/\ (lastOp' = "onaudioprocess" /\ isBuffering)
            => LET channelData ==
                       Batch(nextFrame, nextFrame' - nextFrame, ServiceChannels)
               IN  /\ circularBuffer' = AddSamples(circularBuffer, channelData)
                   /\ isRecording
                         => recordedSamples' = Append(recordedSamples, channelData)
       /\ lastOp' \in {"startCapture", "stopCapture", "toggleRecording",
                       "stopCapture.resume"}
            => UNCHANGED circularBuffer]_vars

C13_Witness ==
    /\ lastOp = "onaudioprocess"
    /\ isBuffering /\ isRecording
    /\ Len(recordedSamples) > 1
    /\ circularBuffer.samplesWritten > circularBuffer.maxSamples
    /\ LastN(GetSamples(circularBuffer), ServiceChannels)
           = FlattenSet(recordedSamples[Len(recordedSamples)])

\* ------------------------------------------------------------------ C14
\* C14: stopCapture() called while Capturing clears the recording flag,
\* keeps the buffering flag and, while the audio context is held, resumes
\* with a result without touching either flag; a batch delivered while the
\* service is buffering, a stopCapture() waiting or not, is added to the
\* ring buffer.
C14_StopLeavesBuffering ==
    [][/\ (lastOp' = "stopCapture" /\ isRecording /\ isBuffering)
            => /\ ret'.kind = "pending"
               /\ ~isRecording' /\ isBuffering'
               /\ pending' # <<>>
       /\ (lastOp' = "stopCapture.resume" /\ audioContext # "null")
            => /\ ret'.kind = "result"
               /\ UNCHANGED <<isRecording, isBuffering>>
       /\ (lastOp' = "onaudioprocess" /\ isBuffering)
            => /\ circularBuffer'.samplesWritten > circularBuffer.samplesWritten
               /\ LastN(GetSamples(circularBuffer'), ServiceChannels)
                      = <<Sample(nextFrame' - 1, 1), Sample(nextFrame' - 1, 2)>>]_vars

C14_Witness ==
    /\ lastOp = "onaudioprocess"
    /\ pending # <<>>
    /\ isBuffering /\ ~isRecording
    /\ Head(pending).session # <<>>
    /\ LastN(GetSamples(circularBuffer), ServiceChannels)
           = <<Sample(nextFrame - 1, 1), Sample(nextFrame - 1, 2)>>

C16_EmptyCaptureIsWindow ==
    [][(/\ lastOp = "stopCapture" /\ ret.kind = "pending"
        /\ lastOp' = "stopCapture.resume"
        /\ Len(pending) = 1 /\ Head(pending).plain
        /\ Head(pending).session = <<>>)
          => /\ ret'.kind = "result"
             /\ ret'.samples = Head(pending).pre
             /\ Len(Head(pending).pre) > 0 => ret'.duration > 0]_vars

C16_Witness ==
    /\ lastOp = "stopCapture.resume"
    /\ ret.kind = "result"
    /\ ret.samples # <<>>
    /\ ret.samples = GetSamples(circularBuffer)
    /\ circularBuffer.samplesWritten > circularBuffer.maxSamples
    /\ ret.duration > 0

\* ------------------------------------------------------------------ C17
\* C17: a stopCapture() whose spliced sequence has no samples returns a
\* container of 44 bytes, the header alone, never an empty one.
C17_EmptyResultHasHeader ==
    (lastOp = "stopCapture.resume" /\ ret.kind = "result" /\ ret.samples = <<>>)
        => ret.value = 44

\* ------------------------------------------------------------------ C18
\* little-endian readers of a byte sequence, offsets counted from 0
GetUint16(bytes, offset) == bytes[offset + 1] + 256 * bytes[offset + 2]

GetUint32(bytes, offset) ==
    GetUint16(bytes, offset) + 65536 * GetUint16(bytes, offset + 2)

GetInt16(bytes, offset) ==
    LET u == GetUint16(bytes, offset)
    IN  IF u >= 32768 THEN u - 65536 ELSE u

\* C18: for n interleaved samples, rate r and c channels, samplesToWav
\* gives 44 + 2n bytes whose header reads back as the chunk ids, RIFF size
\* 36 + 2n, fmt size 16, format tag 1, c channels, rate r, byte rate
\* r*c*2, block align c*2, 16 bits per sample and data size 2n.
C18_HeaderRoundTrip ==
    wavOut # <<>> =>
        LET n == Len(wavIn.samples)
            r == wavIn.sampleRate
            c == wavIn.channels
        IN  /\ Len(wavOut) = 44 + 2 * n
            /\ \A i \in 1..Len(wavOut) : wavOut[i] \in 0..255
            /\ SubSeq(wavOut, 1, 4) = <<82, 73, 70, 70>>
            /\ GetUint32(wavOut, 4) = 36 + 2 * n
            /\ GetUint32(wavOut, 4) = Len(wavOut) - 8
            /\ SubSeq(wavOut, 9, 16) = <<87, 65, 86, 69, 102, 109, 116, 32>>
            /\ GetUint32(wavOut, 16) = 16
            /\ GetUint16(wavOut, 20) = 1
            /\ GetUint16(wavOut, 22) = c
            /\ GetUint32(wavOut, 24) = r
            /\ GetUint32(wavOut, 28) = r * c * 2
            /\ GetUint16(wavOut, 32) = c * 2
            /\ GetUint16(wavOut, 34) = 16
            /\ SubSeq(wavOut, 37, 40) = <<100, 97, 116, 97>>
            /\ GetUint32(wavOut, 40) = 2 * n
            /\ GetUint32(wavOut, 40) = Len(wavOut) - 44

C18_Witness ==
    /\ lastOp = "samplesToWav"
    /\ Len(wavIn.samples) = 2
    /\ wavIn.sampleRate = 44100
    /\ wavIn.channels = 2
    /\ GetUint32(wavOut, 28) = 176400
    /\ Len(wavOut) = 48

\* ------------------------------------------------------------------ C19
\* the 16-bit value of sample i of the output
EncodedAt(i) == GetInt16(wavOut, 44 + 2 * (i - 1))

\* the numerator of s clamped to [-1, 1], over s.den
Clamped(s) == IF s.num > s.den THEN s.den
              ELSE IF s.num < -s.den THEN -s.den ELSE s.num

\* round(num / den), halves upwards as Math.round
Rounded(num, den) == (2 * num + den) \div (2 * den)

\* C19 as the spec states it: sample s is stored as
\* round(clamp(s, -1, 1) * 32767) when s >= 0 and as
\* round(clamp(s, -1, 1) * 32768) when s < 0.
C19_EncodingRounds ==
    wavOut # <<>> =>
        \A i \in 1..Len(wavIn.samples) :
            LET s == wavIn.samples[i]
            IN  EncodedAt(i) = IF s.num >= 0
                               THEN Rounded(Clamped(s) * 32767, s.den)
                               ELSE Rounded(Clamped(s) * 32768, s.den)

\* C19: sample s is stored, little-endian, as clamp(s, -1, 1) * 32767 when
\* s >= 0 and as clamp(s, -1, 1) * 32768 when s < 0, the fraction dropped
\* (toward zero); the stored value lies in [-32768, 32767], and it is 32767
\* for s >= 1 and -32768 for s <= -1.
C19_EncodingTruncates ==
    wavOut # <<>> =>
        \A i \in 1..Len(wavIn.samples) :
            LET s == wavIn.samples[i]
                e == EncodedAt(i)
            IN  /\ e \in -32768..32767
                /\ s.num >= 0 => /\ e * s.den <= Clamped(s) * 32767
                                 /\ Clamped(s) * 32767 < (e + 1) * s.den
                /\ s.num < 0  => /\ e * s.den >= Clamped(s) * 32768
                                 /\ Clamped(s) * 32768 > (e - 1) * s.den
                /\ s.num >= s.den => e = 32767
                /\ s.num <= -s.den => e = -32768

C19_Witness ==
    /\ lastOp = "samplesToWav"
    /\ wavIn.samples = <<Float32(1, 4), Float32(-6, 4)>>
    /\ EncodedAt(1) = 8191
    /\ EncodedAt(2) = -32768

\* ------------------------------------------------------------------ C20
\* C20: the duration stopCapture() reports, in milliseconds, is the number
\* of frames of the result (its interleaved samples over the two channels)
\* divided by the sample rate, times 1000.
C20_DurationFromFrames ==
    (lastOp = "stopCapture.resume" /\ ret.kind = "result")
        => ret.duration * circularBuffer.sampleRate
               = (Len(ret.samples) \div ServiceChannels) * 1000

C20_Witness ==
    /\ lastOp = "stopCapture.resume"
    /\ ret.kind = "result"
    /\ Len(ret.samples) >= 3 * ServiceChannels
    /\ circularBuffer.sampleRate = 2
    /\ ret.duration = 1500

\* ------------------------------------------------------------------ C21
\* C21 as the spec states it: toggleRecording() called while capturing
\* stops the capture, and called in any other state, Idle included, it
\* starts one and returns null.
C21_ToggleStartsWhenIdle ==
    [][lastOp' = "toggleRecording"
          => IF isRecording
             THEN ret'.kind = "pending" /\ ~isRecording'
             ELSE ret'.kind = "null" /\ isRecording']_vars

\* C21: toggleRecording() called while recording stops the capture as
\* stopCapture() does (the flag is cleared and the call waits for its
\* result); called while buffering and not recording it opens an empty
\* session, sets the flag and returns null; called while neither, it throws
\* and changes nothing.  A toggle that does not throw inverts the flag.
C21_ToggleAlternates ==
    [][lastOp' = "toggleRecording"
          => /\ IF isRecording
                THEN /\ ret'.kind = "pending"
                     /\ ~isRecording'
                     /\ pending' = Append(pending, trigger)
                     /\ UNCHANGED <<isBuffering, circularBuffer, recordedSamples>>
                ELSE IF isBuffering
                THEN /\ ret'.kind = "null"
                     /\ isRecording'
                     /\ recordedSamples' = <<>>
                     /\ UNCHANGED <<isBuffering, circularBuffer, pending>>
                ELSE /\ ret'.kind = "throw"
                     /\ UNCHANGED <<isRecording, isBuffering, circularBuffer,
                                    recordedSamples, pending>>
             /\ ret'.kind # "throw" => isRecording' = ~isRecording]_vars

C21_Witness ==
    /\ lastOp = "toggleRecording"
    /\ ret.kind = "pending"
    /\ isBuffering /\ ~isRecording
    /\ Head(pending).session # <<>>
    /\ Head(pending).pre # <<>>

\* ------------------------------------------------------------------ C22
\* C22: cleanup(), from any state, leaves both flags false, the session
\* empty, the stream, the context and both nodes released, and the ring
\* buffer (when there is one) zeroed with a count of 0; a batch delivered
\* once the node is disconnected changes neither the ring buffer nor the
\* session.
C22_CleanupLeavesIdle ==
    [][/\ lastOp' = "cleanup"
            => /\ ~isBuffering' /\ ~isRecording'
               /\ recordedSamples' = <<>>
               /\ audioContext' = "null" /\ stream' = "null"
               /\ sourceNode' = "null" /\ processorNode' = "null"
               /\ circularBuffer # NullBuffer
                    => /\ GetSampleCount(circularBuffer') = 0
                       /\ GetSamples(circularBuffer') = <<>>
                       /\ \A j \in DOMAIN circularBuffer'.buffer :
                              circularBuffer'.buffer[j] = 0
                       /\ circularBuffer'.writeIndex = 0
                       /\ circularBuffer'.samplesWritten = 0
                       /\ circularBuffer'.maxSamples = circularBuffer.maxSamples
       /\ (lastOp' = "onaudioprocess" /\ processorNode = "null")
            => UNCHANGED <<circularBuffer, recordedSamples, isBuffering,
                           isRecording>>]_vars

C22_Witness ==
    /\ lastOp = "onaudioprocess"
    /\ processorNode = "null"
    /\ ~isBuffering /\ ~isRecording
    /\ GetSampleCount(circularBuffer) = 0
    /\ pending # <<>>
    /\ Head(pending).session # <<>>

\* ------------------------------------------------------------------ C23
\* C23: a stopCapture() that resumes after cleanup() released the audio
\* context completes with a result, without an error, and the service is
\* Idle.
C23_StopSurvivesCleanup ==
    (lastOp = "stopCapture.resume" /\ audioContext = "null")
        => /\ ret.kind = "result"
           /\ ~isBuffering /\ ~isRecording

\* ------------------------------------------------------------------ C24
\* C24: the snapshot part of a result, the ring buffer's contents when the
\* stopCapture() resumes, holds only samples that were in the window at the
\* startCapture() of that capture.
C24_SnapshotEndsAtTrigger ==
    [][(lastOp' = "stopCapture.resume" /\ ret'.kind = "result")
          => \A k \in 1..Len(GetSamples(circularBuffer)) :
                \E j \in 1..Len(Head(pending).pre) :
                    Head(pending).pre[j] = GetSamples(circularBuffer)[k]]_vars

\* ------------------------------------------------------------------ C25
\* C25: once the audio source has ended while the service is buffering or
\* recording, the service eventually is Idle.
C25_SourceFailureLeadsToIdle ==
    (stream = "ended" /\ (isBuffering \/ isRecording))
        ~> (~isBuffering /\ ~isRecording)

\* ------------------------------------------------------------------ C26
IsSuffix(t, q) ==
    /\ Len(t) <= Len(q)
    /\ t = SubSeq(q, Len(q) - Len(t) + 1, Len(q))

SamplesOf(q) == {q[i] : i \in 1..Len(q)}

\* C26: a capture that starts finds its session empty, whatever the
\* captures before it recorded; while it records, the session holds only
\* samples delivered since its startCapture(); the session part of a result
\* holds only samples of the capture started last, none of a cycle before
\* it, and a stopCapture() that resumes while the audio context is held
\* returns a result.
C26_CyclesIndependent ==
    [][/\ (lastOp' \in {"startCapture", "toggleRecording"}
             /\ ret'.kind \in {"undefined", "null"})
            => recordedSamples' = <<>>
       /\ isRecording'
            => IsSuffix(RecordedFlat(recordedSamples'), trigger'.session)
       /\ lastOp' = "stopCapture.resume"
            => /\ SamplesOf(RecordedFlat(recordedSamples))
                     \subseteq SamplesOf(IF isRecording THEN trigger.session
                                         ELSE pending[Len(pending)].session)
               /\ audioContext # "null"
                    => /\ ret'.kind = "result"
                       /\ IsSuffix(RecordedFlat(recordedSamples), ret'.samples)
                       /\ recordedSamples' = <<>>]_vars

\* the first capture was stopped with frames recorded, the second records
\* frames of its own
C26_Witness ==
    /\ pending # <<>>
    /\ Head(pending).session # <<>>
    /\ isRecording
    /\ trigger.session # <<>>
    /\ RecordedFlat(recordedSamples) = trigger.session
    /\ SamplesOf(trigger.session) \cap SamplesOf(Head(pending).session) = {}

\* ------------------------------------------------------------------ C27
\* C27: once the component has unmounted and nothing the hook started is
\* still in flight (initAudio() has settled, no hook operation awaits the
\* service), the service is not buffering and holds no microphone stream,
\* whatever the order of the unmount and the settling of initialize().
C27_UnmountReleasesService ==
    (mounted = "gone" /\ initAudio \in {"done", "failed"} /\ hookCalls = <<>>)
        => (~service.isBuffering /\ service.stream = "null")

\* ------------------------------------------------------------------ C28
HookOps ==
    {"hook.toggleRecording", "hook.startCapture", "hook.stopCapture",
     "hook.toggleRecording.resume", "hook.stopCapture.resume"}

\* the hook operation that takes the step finds no service, or the service
\* method it calls throws
HookOpRaises(op) ==
    /\ lastOp' = op
    /\ CASE op = "hook.toggleRecording" ->
                 \/ audioServiceRef = "null"
                 \/ ~service.isRecording /\ SvcStartCaptureThrows(service)
         [] op = "hook.startCapture" ->
                 \/ audioServiceRef = "null"
                 \/ SvcStartCaptureThrows(service)
         [] op = "hook.stopCapture" -> audioServiceRef = "null"
         [] OTHER -> SvcStopCaptureThrows(service)

HookOpMessage(op) ==
    IF op \in {"hook.toggleRecording.resume", "hook.stopCapture.resume"}
    THEN NullSampleRate
    ELSE IF audioServiceRef = "null" THEN NotInitialized ELSE MustBuffer

\* C28 as stated: a hook operation whose service call raises, or that finds
\* no service, records the message, returns null and keeps isRecording.
C28_ErrorReturnsNull ==
    [][\A op \in HookOps :
          HookOpRaises(op) =>
              /\ recorder'.error = HookOpMessage(op)
              /\ ret'.kind = "null"
              /\ recorder'.isRecording = recorder.isRecording]_vars

\* C28, amended: a hook operation whose service call raises, or that finds
\* no service, records the message and keeps isRecording; toggleRecording
\* and stopCapture return null, startCapture returns undefined.
C28_ErrorIsRecorded ==
    [][\A op \in HookOps :
          HookOpRaises(op) =>
              /\ recorder'.error = HookOpMessage(op)
              /\ ret'.kind = IF op = "hook.startCapture" THEN "undefined"
                             ELSE "null"
              /\ recorder'.isRecording = recorder.isRecording]_vars

\* the service's startCapture() has thrown under the hook's startCapture()
\* while the hook's flag was set
C28_Witness ==
    /\ lastOp = "hook.startCapture"
    /\ recorder.error = MustBuffer
    /\ recorder.isRecording
    /\ ret.kind = "undefined"

\* ------------------------------------------------------------------ C29
\* the step is the continuation of call i after its storage function settled
Settles(i) ==
    /\ calls[i].phase = "settled"
    /\ \/ calls' = Without(calls, i)
       \/ calls' = [calls EXCEPT ![i].phase = "info"]

Mutators == {"renameRecording", "toggleRecordingFavorite", "removeRecording"}

\* C29: when the storage call of renameRecording, toggleRecordingFavorite or
\* removeRecording has failed, the hook operation leaves the list as it is,
\* sets the hook's error to the failure's message and rethrows; and a step
\* changes the list only as the continuation of a storage call that
\* succeeded.
C29_FailureKeepsList ==
    [][/\ \A i \in 1..Len(calls) :
             (Settles(i) /\ calls[i].hook \in Mutators
                         /\ calls[i].error # "null")
                 => /\ recordings' = recordings
                    /\ recState'.error = calls[i].error
                    /\ ret'.kind = "throw"
       /\ recordings' # recordings
             => \E i \in 1..Len(calls) :
                    Settles(i) /\ calls[i].error = "null"]_vars

\* removeRecording has rethrown a failed delete while the list held a record
C29_Witness ==
    /\ lastOp = "removeRecording.resume"
    /\ ret.kind = "throw"
    /\ recState.error = RequestFailed
    /\ recordings # <<>>

\* ------------------------------------------------------------------ C30
\* toggleFavorite(id) run on its own: db.get, the flip, db.put
ToggleFavoriteAlone(store, id) == Put(store, FlipFavorite(Get(store, id)))

\* the step is the db.put of call i, and it succeeded
PutSucceeds(i) ==
    /\ calls[i].phase = "put"
    /\ Len(calls') = Len(calls)
    /\ calls'[i].phase = "settled"
    /\ calls'[i].error = "null"

\* C30: the put of a toggleFavorite(id) leaves every other recording as it
\* is; when the record it read is still the stored one, the stored record
\* afterwards differs from it in isFavorite only, which is inverted; and
\* for every stored recording, toggleFavorite run twice in sequence gives
\* back the store it started from.
C30_ToggleFavoriteInverts ==
    [][/\ \A i \in 1..Len(calls) :
             (PutSucceeds(i) /\ calls[i].fn = "toggleFavorite")
                 => LET id == calls[i].id
                    IN  /\ DOMAIN db' = DOMAIN db \cup {id}
                        /\ \A k \in DOMAIN db \ {id} : db'[k] = db[k]
                        /\ (id \in DOMAIN db /\ db[id] = calls[i].recording)
                              => /\ db'[id].isFavorite = ~db[id].isFavorite
                                 /\ db'[id].id = db[id].id
                                 /\ db'[id].name = db[id].name
                                 /\ db'[id].timestamp = db[id].timestamp
                                 /\ db'[id].transcription = db[id].transcription
       /\ \A id \in DOMAIN db :
             ToggleFavoriteAlone(ToggleFavoriteAlone(db, id), id) = db]_vars

\* a second toggleFavorite of a recording has put it back as not favorite,
\* beside another recording
C30_Witness ==
    /\ Cardinality(DOMAIN db) = 2
    /\ \E i \in 1..Len(calls) :
          /\ calls[i].fn = "toggleFavorite"
          /\ calls[i].phase = "settled"
          /\ calls[i].error = "null"
          /\ ~calls[i].recording.isFavorite
          /\ db[calls[i].id] = calls[i].recording

\* ------------------------------------------------------------------ C31
\* the step is the db.get of call i
GetSettles(i) ==
    /\ calls[i].phase = "get"
    /\ Len(calls') = Len(calls)
    /\ calls'[i] # calls[i]

\* C31: when the db.get of updateRecording (updateRecordingName,
\* updateRecordingTranscription) or toggleFavorite finds no record under
\* its id, the call fails with 'Recording not found' without a db.put: the
\* store is as it was when the get settles and when the call throws.
C31_MissingIdFails ==
    [][\A i \in 1..Len(calls) :
          /\ (GetSettles(i) /\ calls[i].id \notin DOMAIN db)
                => /\ calls'[i].phase = "settled"
                   /\ calls'[i].error = NotFound
                   /\ db' = db
          /\ (Settles(i) /\ calls[i].hook = "none"
                         /\ calls[i].fn \in {"updateRecording", "toggleFavorite"}
                         /\ calls[i].recording = NoRecording)
                => /\ calls[i].error = NotFound
                   /\ ret'.kind = "throw"
                   /\ db' = db]_vars

\* updateRecording has failed on an id the store does not hold, beside a
\* stored recording
C31_Witness ==
    /\ DOMAIN db = {1}
    /\ \E i \in 1..Len(calls) :
          /\ calls[i].fn = "updateRecording"
          /\ calls[i].id = 2
          /\ calls[i].phase = "settled"
          /\ calls[i].error = NotFound

\* ------------------------------------------------------------------ C32
\* C32: when the request of getFavoriteRecordings() settles, the call's
\* result is the stored recordings whose isFavorite is set, newest first.
C32_FavoritesReturned ==
    [][\A i \in 1..Len(calls) :
          (calls[i].phase = "getAllFromIndex" /\ Len(calls') = Len(calls)
                                              /\ calls'[i] # calls[i])
              => calls'[i].data =
                    NewestFirst({db[k] : k \in {j \in DOMAIN db :
                                                    db[j].isFavorite}})]_vars

\* ------------------------------------------------------------------ C33
\* C33: the chunk buffer never holds more than maxChunks chunks, holds no
\* empty or missing chunk, and holds exactly the last min(n, maxChunks) of
\* the n non-empty chunks given to addChunk, in the order they came.
C33_ChunkWindow ==
    /\ ChunkCount(chunkBuffer) <= chunkBuffer.maxChunks
    /\ \A i \in 1..Len(chunkBuffer.chunks) :
          ~chunkBuffer.chunks[i].null /\ chunkBuffer.chunks[i].size > 0
    /\ chunkBuffer.chunks =
          LastN(chunkAdded, Min(Len(chunkAdded), chunkBuffer.maxChunks))

\* more non-empty chunks than the buffer holds were added, and an empty or
\* missing one was passed over
C33_Witness ==
    /\ Len(chunkAdded) > chunkBuffer.maxChunks
    /\ chunkBuffer.maxChunks >= 2
    /\ Len(chunkAdded) < nextChunk - 1
    /\ lastOp = "addChunk"

\* ------------------------------------------------------------------ C34
\* a stopCapture() of the chunk-based service, called directly or through
\* toggleRecording(), ends a capture in this step
ChunkCaptureEnds ==
    /\ lastOp' \in {"chunk.stopCapture", "chunk.toggleRecording",
                    "chunk.stopCapture.resume"}
    /\ ret'.kind = "result"

\* C34 as stated: after every stopCapture() that ends a capture the
\* buffering recorder is in the 'recording' state again.
C34_BufferingResumes ==
    [][ChunkCaptureEnds => chunkService'.mediaRecorder = "recording"]_vars

\* C34: after every stopCapture() that ends a capture the buffering
\* recorder is in the 'recording' state again, unless cleanup() released
\* the recorder while the call was waiting: then there is none.
C34_BufferingResumesUnlessReleased ==
    [][ChunkCaptureEnds =>
          chunkService'.mediaRecorder =
             IF chunkService.mediaRecorder = "null" THEN "null"
             ELSE "recording"]_vars

\* a stopCapture() that waited has returned a capture with chunks in it,
\* and the buffering recorder that startCapture() stopped records again
C34_Witness ==
    /\ lastOp = "chunk.stopCapture.resume"
    /\ ret.kind = "result"
    /\ ret.value > 0
    /\ chunkService.mediaRecorder = "recording"
    /\ chunkService.isBuffering
    /\ ~chunkService.isRecording

\* ------------------------------------------------------------------ C35
\* C35: whenever no capture is in progress, isBuffering is true exactly
\* when the buffering recorder is in the 'recording' state, and start() was
\* never called on a recording recorder nor stop() on an inactive one.
C35_FlagMatchesRecorder ==
    /\ (~chunkService.isRecording /\ chunkStops = 0)
          => (chunkService.isBuffering
                 <=> chunkService.mediaRecorder = "recording")
    /\ misuse = {}

\* ------------------------------------------------------------------ C36
\* C36: whenever no operation of the mounted hook is in flight, the
\* isRecording flag the hook exposes equals the service's isRecording flag.
C36_FlagsAgree ==
    (mounted = "yes" /\ initAudio # "awaiting" /\ hookCalls = <<>>)
        => recorder.isRecording = service.isRecording

NameCallOf(id) ==
    {i \in 1..Len(calls) :
        /\ calls[i].fn = "updateRecording" /\ calls[i].id = id
        /\ calls[i].updates.field = "name"}

TranscriptionCallOf(id) ==
    {i \in 1..Len(calls) :
        /\ calls[i].fn = "updateRecording" /\ calls[i].id = id
        /\ calls[i].updates.field = "transcription"}

\* C38: two concurrent updates of different fields of one recording, each
\* a get followed by a put, both take effect once both have completed
\* without an error and no other call is under way.
C38_NoLostUpdate ==
    \A id \in DOMAIN db :
       \A i \in NameCallOf(id), j \in TranscriptionCallOf(id) :
          (/\ calls[i].phase = "settled" /\ calls[i].error = "null"
           /\ calls[j].phase = "settled" /\ calls[j].error = "null"
           /\ Len(calls) = 2)
             => /\ db[id].name = calls[i].updates.value
                /\ db[id].transcription = calls[j].updates.value

\* ------------------------------------------------------------------ C39
PendingLoads == {n \in 1..Len(pipelineCalls) : pipelineCalls[n] = "pending"}

\* a call of preloadTranscriptionModel or transcribeAudio is made in this
\* step
TranscriptionCalled ==
    /\ lastOp' \in TranscriptionFns
    /\ Len(transcriptions') = Len(transcriptions) + 1

C39_State ==
    /\ Cardinality(PendingLoads) <= 1
    /\ \A n \in 1..Len(pipelineCalls) :
          n < Len(pipelineCalls) => pipelineCalls[n] = "failed"
    /\ ~(GetTranscriptionStatus.isReady /\ GetTranscriptionStatus.isLoading)
    /\ (pipelineCalls # <<>> /\ pipelineCalls[Len(pipelineCalls)] = "failed")
          => ~isLoading

C39_Step ==
    /\ (TranscriptionCalled /\ Len(pipelineCalls') > Len(pipelineCalls))
          => /\ PendingLoads = {}
             /\ transcriptionPipeline = "null"
    /\ (/\ TranscriptionCalled
        /\ pipelineCalls # <<>>
        /\ pipelineCalls[Len(pipelineCalls)] = "failed")
          => /\ Len(pipelineCalls') = Len(pipelineCalls) + 1
             /\ PendingLoads' = {Len(pipelineCalls')}

\* C39: model loading is single-flight: pipeline() is invoked only when no
\* load is pending and none has succeeded, so every pipeline() call but the
\* last has failed; getTranscriptionStatus never reports isReady and
\* isLoading both true; after a failed load isLoading is false and the
\* next call starts a new load.
C39_SingleFlight == []C39_State /\ [][C39_Step]_vars

\* a load failed; a later call started a second load, and a call made
\* while that one was pending waits for it too
C39_Witness ==
    /\ Len(pipelineCalls) = 2
    /\ pipelineCalls[1] = "failed"
    /\ pipelineCalls[2] = "pending"
    /\ Len(transcriptions) = 2
    /\ \A i \in 1..2 : transcriptions[i].promise = 2
    /\ lastOp \in TranscriptionFns

====
